---- MODULE Spec2Model ----
(***************************************************************************)
(* ClawCal: the calendar event store (CalendarManager), its iCal codec and *)
(* the feed router (FeedManager).                                          *)
(*                                                                         *)
(* Strings are sequences of atoms.  An atom is one character ("a", ";",    *)
(* "\n") or one fixed token of the format that user text never spells     *)
(* ("BEGIN", "SUMMARY", "@clawcal").  A JavaScript value that may be       *)
(* undefined is a tuple: <<>> is undefined, <<v>> is the value v; a number *)
(* that is NaN (and a Date whose time value is NaN) is the tuple <<0, 0>>. *)
(* Instants are milliseconds since the epoch.                              *)
(***************************************************************************)
EXTENDS Integers, Sequences, FiniteSets, TLC

VARIABLES now, disk, cal, combined, agentFeeds, feedsConfig, lastOp, hist, cancelled,
          tcConfig, delivered, writing, input, output, localPush, pushed

vars == <<now, disk, cal, combined, agentFeeds, feedsConfig, lastOp, hist, cancelled,
          tcConfig, delivered, writing, input, output, localPush, pushed>>

----------------------------------------------------------------------------
(* JavaScript values                                                       *)

Undefined == <<>>

Def(v) == <<v>>

NaN == <<0, 0>>

IsDef(o) == Len(o) = 1

IsNaN(o) == Len(o) = 2

Val(o) == o[1]

\* truthiness of an optional string: defined and not empty
TruthyStr(o) == IsDef(o) /\ Val(o) # <<>>

\* truthiness of an optional number: defined, not NaN and not 0
TruthyNum(o) == IsDef(o) /\ Val(o) # 0

\* truthiness of an optional boolean
TruthyBool(o) == IsDef(o) /\ Val(o)

\* x != null
NotNull(o) == Len(o) > 0

----------------------------------------------------------------------------
(* Text                                                                    *)

Digit == <<"0", "1", "2", "3", "4", "5", "6", "7", "8", "9">>

IsDigit(a) == a \in {"0", "1", "2", "3", "4", "5", "6", "7", "8", "9"}

DigitVal(a) == CHOOSE k \in 0..9 : Digit[k + 1] = a

RECURSIVE NatToText(_)
NatToText(n) == IF n < 10 THEN <<Digit[n + 1]>>
                ELSE NatToText(n \div 10) \o <<Digit[(n % 10) + 1]>>

\* `${n}` for an integer n
NumToText(n) == IF n < 0 THEN <<"-">> \o NatToText(0 - n) ELSE NatToText(n)

RECURSIVE Pad(_, _)
Pad(n, w) == IF w = 0 THEN <<>> ELSE Pad(n \div 10, w - 1) \o <<Digit[(n % 10) + 1]>>

RECURSIVE DigitsToNat(_, _)
DigitsToNat(t, acc) == IF t = <<>> THEN acc
                       ELSE DigitsToNat(Tail(t), acc * 10 + DigitVal(Head(t)))

AllDigits(t) == \A i \in 1..Len(t) : IsDigit(t[i])

MatchAt(s, i, pat) == /\ i >= 1
                      /\ i + Len(pat) - 1 <= Len(s)
                      /\ \A k \in 1..Len(pat) : s[i + k - 1] = pat[k]

\* the concatenation of ss[lo], ..., ss[hi], by halves
RECURSIVE Flatten(_, _, _)
Flatten(ss, lo, hi) ==
    IF lo > hi THEN <<>>
    ELSE IF lo = hi THEN ss[lo]
    ELSE Flatten(ss, lo, (lo + hi) \div 2) \o Flatten(ss, (lo + hi) \div 2 + 1, hi)

Concat(ss) == Flatten(ss, 1, Len(ss))

\* String.prototype.replace with a global literal pattern of one or two
\* characters: the matches are taken from the left and do not overlap, so
\* in a row of overlapping occurrences every second one is a match
ReplaceAll(s, pat, rep) ==
    LET Occ(i) == MatchAt(s, i, pat)
        RowStart(i) == CHOOSE j \in 1..i :
                          /\ \A k \in j..i : Occ(k)
                          /\ (j = 1 \/ ~Occ(j - 1))
        IsMatch(i) == Occ(i) /\ (i - RowStart(i)) % Len(pat) = 0
        Piece(i) == IF IsMatch(i) THEN rep
                    ELSE IF Len(pat) = 2 /\ i > 1 /\ IsMatch(i - 1) THEN <<>>
                    ELSE <<s[i]>>
    IN  Concat([i \in 1..Len(s) |-> Piece(i)])

\* the characters String.prototype.trim removes
WhiteSpace == {" ", "\t", "\n", "\r", "LS", "PS"}

\* [\x00-\x1f\x7f  ]: NUL and DEL stand for the other control characters;
\* LS and PS are U+2028 and U+2029
ControlAll == {"NUL", "\t", "\n", "\r", "DEL", "LS", "PS"}

\* [\x00-\x09\x0b\x0c\x0e-\x1f\x7f]: neither \x0a nor \x0d is in the class
ControlContent == {"NUL", "\t", "DEL"}

TrimLeft(s) ==
    LET ink == {i \in 1..Len(s) : s[i] \notin WhiteSpace}
    IN  IF ink = {} THEN <<>>
        ELSE SubSeq(s, CHOOSE i \in ink : \A j \in ink : i <= j, Len(s))

TrimRight(s) ==
    LET ink == {i \in 1..Len(s) : s[i] \notin WhiteSpace}
    IN  IF ink = {} THEN <<>>
        ELSE SubSeq(s, 1, CHOOSE i \in ink : \A j \in ink : i >= j)

Trim(s) == TrimRight(TrimLeft(s))

NotControlAll(a) == a \notin ControlAll

NotControlContent(a) == a \notin ControlContent

stripControl(value) == Trim(SelectSeq(value, NotControlAll))

sanitizeContent(value) ==
    Trim(SelectSeq([i \in 1..Len(value) |->
                      IF value[i] \in {"LS", "PS"} THEN "\n" ELSE value[i]],
                   NotControlContent))

escapeICS(text) ==
    ReplaceAll(ReplaceAll(ReplaceAll(ReplaceAll(text,
        <<"\\">>, <<"\\", "\\">>),
        <<";">>, <<"\\", ";">>),
        <<",">>, <<"\\", ",">>),
        <<"\n">>, <<"\\", "n">>)

unescapeICS(text) ==
    ReplaceAll(ReplaceAll(ReplaceAll(ReplaceAll(text,
        <<"\\", "n">>, <<"\n">>),
        <<"\\", ",">>, <<",">>),
        <<"\\", ";">>, <<";">>),
        <<"\\", "\\">>, <<"\\">>)


----------------------------------------------------------------------------
(* Line folding                                                            *)

\* octets of the UTF-8 encoding of one atom taken alone: E2 is a character of
\* two octets, E3 one of three; HI and LO are the two UTF-16 code units of a
\* character outside the basic plane, each encoded alone as U+FFFD; a format
\* token counts its ASCII letters
Octets(a) == CASE a = "E2" -> 2
               [] a \in {"E3", "LS", "PS", "HI", "LO", "FFFD"} -> 3
               [] a \in {"NUL", "DEL"} -> 1
               [] OTHER -> Len(a)

\* the octets of str[lo..hi], by halves
RECURSIVE OctetsOf(_, _, _)
OctetsOf(str, lo, hi) ==
    IF lo > hi THEN 0
    ELSE IF lo = hi THEN Octets(str[lo])
    ELSE OctetsOf(str, lo, (lo + hi) \div 2) + OctetsOf(str, (lo + hi) \div 2 + 1, hi)

\* new TextEncoder().encode(t).length: a pair HI LO is one character of
\* four octets
TextOctets(t) ==
    OctetsOf(t, 1, Len(t))
      - 2 * Cardinality({i \in 1..(Len(t) - 1) : t[i] = "HI" /\ t[i + 1] = "LO"})

\* the index at which the loop of cutAtOctetBoundary stops: the first
\* character from start that no longer fits in maxOctets
cutEnd(str, start, maxOctets) ==
    LET top == IF Len(str) < start + maxOctets THEN Len(str) + 1 ELSE start + maxOctets
    IN  CHOOSE end \in start..top :
          /\ OctetsOf(str, start, end - 1) <= maxOctets
          /\ (end > Len(str) \/ OctetsOf(str, start, end) > maxOctets)

\* the chunk of str that starts at index start (from 1) and has at most maxOctets
cutAtOctetBoundary(str, start, maxOctets) ==
    SubSeq(str, start, cutEnd(str, start, maxOctets) - 1)

RECURSIVE foldRest(_, _)
foldRest(full, pos) ==
    IF pos > Len(full) THEN <<>>
    ELSE LET chunk == cutAtOctetBoundary(full, pos, 74)
         IN  <<"\r", "\n", " ">> \o chunk \o foldRest(full, pos + Len(chunk))

foldLine(prefix, value) ==
    LET maxFirst == 75 - TextOctets(prefix)
    IN  IF TextOctets(value) <= maxFirst THEN value
        ELSE LET chunk == cutAtOctetBoundary(value, 1, maxFirst)
             IN  chunk \o foldRest(value, 1 + Len(chunk))

----------------------------------------------------------------------------
(* Dates                                                                   *)

MsPerDay == 86400000

\* the civil date [y, m, d] of a day number counted from 1970-01-01
CivilFromDays(days) ==
    LET z   == days + 719468
        era == z \div 146097
        doe == z - era * 146097
        yoe == (doe - doe \div 1460 + doe \div 36524 - doe \div 146096) \div 365
        doy == doe - (365 * yoe + yoe \div 4 - yoe \div 100)
        mp  == (5 * doy + 2) \div 153
        m   == IF mp < 10 THEN mp + 3 ELSE mp - 9
    IN  [y |-> yoe + era * 400 + (IF m <= 2 THEN 1 ELSE 0),
         m |-> m,
         d |-> doy - (153 * mp + 2) \div 5 + 1]

\* the day number of a civil date, 1 <= m <= 12, any d
DaysFromCivil(y, m, d) ==
    LET yy  == IF m <= 2 THEN y - 1 ELSE y
        era == yy \div 400
        yoe == yy - era * 400
        doy == (153 * (IF m > 2 THEN m - 3 ELSE m + 9) + 2) \div 5 + d - 1
        doe == yoe * 365 + yoe \div 4 - yoe \div 100 + doy
    IN  era * 146097 + doe - 719468

\* Date.UTC(year, monthIndex, day, hours, minutes, seconds)
DateUTC(year, monthIndex, day, h, mi, s) ==
    LET y0 == IF 0 <= year /\ year <= 99 THEN 1900 + year ELSE year
        tm == y0 * 12 + monthIndex
    IN  (DaysFromCivil(tm \div 12, (tm % 12) + 1, 1) + day - 1) * MsPerDay
        + h * 3600000 + mi * 60000 + s * 1000

\* the first ten characters of Date.prototype.toISOString, without the dashes
IsoDate(ms) ==
    LET c == CivilFromDays(ms \div MsPerDay)
    IN  Pad(c.y, 4) \o Pad(c.m, 2) \o Pad(c.d, 2)

\* a text that was never produced: toISOString of an invalid date throws a
\* RangeError, of undefined a TypeError
DateThrows(date) == IF IsNaN(date) THEN <<"RangeError">> ELSE <<"TypeError">>

formatICSDate(date) ==
    IF ~IsDef(date) THEN DateThrows(date)
    ELSE LET ms  == Val(date)
             rem == ms % MsPerDay
         IN  IsoDate(ms) \o <<"T">> \o Pad(rem \div 3600000, 2)
               \o Pad((rem % 3600000) \div 60000, 2)
               \o Pad((rem % 60000) \div 1000, 2) \o <<"Z">>

formatICSDateOnly(date) ==
    IF ~IsDef(date) THEN DateThrows(date) ELSE IsoDate(Val(date))

Num2(t, i) == DigitsToNat(SubSeq(t, i, i + 1), 0)

\* new Date(str) of a string that Date.parse does not accept: every string
\* that fails the two patterns below and is made of the atoms of this model
parseICSDate(str) ==
    LET n == Len(str)
    IN  IF /\ n \in {15, 16}
           /\ AllDigits(SubSeq(str, 1, 8))
           /\ str[9] = "T"
           /\ AllDigits(SubSeq(str, 10, 15))
           /\ (n = 16 => str[16] = "Z")
        THEN Def(DateUTC(DigitsToNat(SubSeq(str, 1, 4), 0), Num2(str, 5) - 1,
                         Num2(str, 7), Num2(str, 10), Num2(str, 12), Num2(str, 14)))
        ELSE NaN

parseICSDateOnly(str) ==
    IF Len(str) = 8 /\ AllDigits(str)
    THEN Def(DateUTC(DigitsToNat(SubSeq(str, 1, 4), 0), Num2(str, 5) - 1,
                     Num2(str, 7), 0, 0, 0))
    ELSE NaN

----------------------------------------------------------------------------
(* Status                                                                  *)

EventStatus == {"PLANNED", "IN_PROGRESS", "COMPLETED", "CANCELLED"}

\* a mapping that renders CANCELLED like any unknown status
mapStatusNoCancel(status) ==
    CASE status = "COMPLETED" -> "CONFIRMED"
      [] status = "IN_PROGRESS" -> "CONFIRMED"
      [] OTHER -> "TENTATIVE"

mapStatus(status) ==
    CASE status = "COMPLETED" -> "CONFIRMED"
      [] status = "CANCELLED" -> "CANCELLED"
      [] status = "IN_PROGRESS" -> "CONFIRMED"
      [] status = "PLANNED" -> "TENTATIVE"
      [] OTHER -> "TENTATIVE"

reverseMapStatus(icsStatus) ==
    CASE icsStatus = <<"CONFIRMED">> -> "COMPLETED"
      [] icsStatus = <<"CANCELLED">> -> "CANCELLED"
      [] icsStatus = <<"TENTATIVE">> -> "PLANNED"
      [] OTHER -> "PLANNED"


----------------------------------------------------------------------------
(* Events and the Map that holds them                                      *)

FieldNames == {"uid", "title", "description", "start", "end", "duration",
               "allDay", "category", "agent", "project", "status", "sequence",
               "rrule", "alerts", "url"}

\* the object {}
EmptyEvent == [f \in FieldNames |-> Undefined]

\* {...base, ...updates}: updates is a function on some of the field names
Spread(base, updates) ==
    [f \in FieldNames |-> IF f \in DOMAIN updates THEN updates[f] ELSE base[f]]

\* a Map in insertion order: a sequence of entries [key, value]
MapKeys(m) == {m[i].key : i \in 1..Len(m)}

MapHas(m, k) == \E i \in 1..Len(m) : m[i].key = k

MapIndex(m, k) == CHOOSE i \in 1..Len(m) : m[i].key = k

\* Map.get: Undefined when the key is absent
MapGet(m, k) == IF MapHas(m, k) THEN Def(m[MapIndex(m, k)].value) ELSE Undefined

\* Map.set: a known key keeps its place
MapSet(m, k, v) ==
    IF MapHas(m, k) THEN [m EXCEPT ![MapIndex(m, k)] = [key |-> k, value |-> v]]
    ELSE Append(m, [key |-> k, value |-> v])

MapDelete(m, k) ==
    IF MapHas(m, k)
    THEN SubSeq(m, 1, MapIndex(m, k) - 1) \o SubSeq(m, MapIndex(m, k) + 1, Len(m))
    ELSE m

----------------------------------------------------------------------------
(* Sanitization at the model boundary                                      *)

\* stripControl(undefined) throws a TypeError
CanSanitize(event) == IsDef(event.title)

sanitizeEvent(event) ==
    [event EXCEPT
       !.title = Def(stripControl(Val(event.title))),
       !.description = IF TruthyStr(event.description)
                       THEN Def(sanitizeContent(Val(event.description))) ELSE Undefined,
       !.agent = IF TruthyStr(event.agent)
                 THEN Def(stripControl(Val(event.agent))) ELSE Undefined,
       !.project = IF TruthyStr(event.project)
                   THEN Def(stripControl(Val(event.project))) ELSE Undefined,
       !.category = IF TruthyStr(event.category)
                    THEN Def(stripControl(Val(event.category))) ELSE Undefined,
       !.url = IF TruthyStr(event.url)
               THEN Def(stripControl(Val(event.url))) ELSE Undefined]

----------------------------------------------------------------------------
(* Rendering                                                               *)

\* `${s}` of an optional string
TextOf(o) == IF IsDef(o) THEN Val(o) ELSE <<"undefined">>

\* `${n}` of an optional number
NumTextOf(o) == IF IsDef(o) THEN NumToText(Val(o))
                ELSE IF IsNaN(o) THEN <<"NaN">> ELSE <<"undefined">>

\* a method call on a string that may be undefined: the atom TypeError marks
\* a text that was never produced
TextOrThrow(o) == IF IsDef(o) THEN Val(o) ELSE <<"TypeError">>

Prop(key, value) == <<key, ":">> \o value

AddMinutes(date, minutes) == IF IsDef(date) THEN Def(Val(date) + minutes * 60000) ELSE NaN

alertToLines(alert, event) ==
    << <<"BEGIN", ":", "VALARM">>,
       <<"ACTION", ":", "DISPLAY">>,
       Prop("DESCRIPTION", escapeICS(IF TruthyStr(alert.description)
                                     THEN Val(alert.description)
                                     ELSE TextOrThrow(event.title))),
       Prop("TRIGGER", <<"-", "PT">> \o NumTextOf(alert.minutes) \o <<"M">>),
       <<"END", ":", "VALARM">> >>

alertsToLines(alerts, event) ==
    Concat([i \in 1..Len(alerts) |-> alertToLines(alerts[i], event)])

Opt1(cond, line) == IF cond THEN <<line>> ELSE <<>>

eventToVEvent(event, clock) ==
    << <<"BEGIN", ":", "VEVENT">>,
       Prop("UID", TextOf(event.uid) \o <<"@clawcal">>),
       Prop("DTSTAMP", formatICSDate(Def(clock))) >>
    \o (IF TruthyBool(event.allDay)
        THEN <<Prop("DTSTART;VALUE=DATE", formatICSDateOnly(event.start))>>
             \o Opt1(NotNull(event.end),
                     Prop("DTEND;VALUE=DATE", formatICSDateOnly(event.end)))
        ELSE <<Prop("DTSTART", formatICSDate(event.start))>>
             \o (IF NotNull(event.end) THEN <<Prop("DTEND", formatICSDate(event.end))>>
                 ELSE IF TruthyNum(event.duration)
                 THEN <<Prop("DURATION", <<"PT">> \o NumTextOf(event.duration) \o <<"M">>)>>
                 ELSE <<Prop("DTEND", formatICSDate(AddMinutes(event.start, 15)))>>))
    \o <<Prop("SUMMARY", foldLine(<<"SUMMARY", ":">>, escapeICS(TextOrThrow(event.title))))>>
    \o Opt1(TruthyStr(event.description),
            Prop("DESCRIPTION", foldLine(<<"DESCRIPTION", ":">>,
                                         escapeICS(TextOf(event.description)))))
    \o Opt1(TruthyStr(event.category), Prop("CATEGORIES", escapeICS(TextOf(event.category))))
    \o Opt1(IsDef(event.status), Prop("STATUS", <<mapStatus(Val(event.status))>>))
    \o Opt1(NotNull(event.sequence), Prop("SEQUENCE", NumTextOf(event.sequence)))
    \o Opt1(TruthyStr(event.rrule), Prop("RRULE", TextOf(event.rrule)))
    \o Opt1(TruthyStr(event.agent), Prop("X-OPENCLAW-AGENT", escapeICS(TextOf(event.agent))))
    \o Opt1(TruthyStr(event.project),
            Prop("X-OPENCLAW-PROJECT", escapeICS(TextOf(event.project))))
    \o Opt1(TruthyStr(event.url), Prop("URL", TextOf(event.url)))
    \o <<Prop("X-CLAWCAL-SOURCE-ID", TextOf(event.uid))>>
    \o (IF IsDef(event.alerts) THEN alertsToLines(Val(event.alerts), event) ELSE <<>>)
    \o << <<"END", ":", "VEVENT">> >>

eventsToLines(events, clock) ==
    Concat([i \in 1..Len(events) |-> eventToVEvent(events[i].value, clock)])

\* lines.join('\r\n') + '\r\n'
JoinCRLF(lines) == Concat([i \in 1..Len(lines) |-> lines[i] \o <<"\r", "\n">>])

toICS(cm, clock) ==
    JoinCRLF(<< <<"BEGIN", ":", "VCALENDAR">>,
                <<"VERSION", ":", "2.0">>,
                <<"PRODID", ":", "-//ClawCal//OpenClaw//EN">>,
                <<"CALSCALE", ":", "GREGORIAN">>,
                <<"METHOD", ":", "PUBLISH">>,
                Prop("X-WR-CALNAME", cm.calendarName),
                <<"X-WR-TIMEZONE", ":", "UTC">> >>
             \o eventsToLines(cm.events, clock)
             \o << <<"END", ":", "VCALENDAR">> >>)

\* rendering threw: the text holds the mark of an exception
Throws(text) == \E i \in 1..Len(text) : text[i] \in {"RangeError", "TypeError"}


----------------------------------------------------------------------------
(* Parsing                                                                 *)

Indices(s) == [i \in 1..Len(s) |-> i]

\* content.replace(/\r\n[ \t]/g, ''): two matches never overlap
unfold(content) ==
    LET n == Len(content)
        IsMatch(i) == /\ i >= 1 /\ i + 2 <= n
                      /\ content[i] = "\r" /\ content[i + 1] = "\n"
                      /\ content[i + 2] \in {" ", "\t"}
        Kept(i) == ~(IsMatch(i) \/ IsMatch(i - 1) \/ IsMatch(i - 2))
        kept == SelectSeq(Indices(content), Kept)
    IN  [k \in 1..Len(kept) |-> content[kept[k]]]

\* content.split(/\r?\n/)
splitLines(content) ==
    LET n == Len(content)
        IsLF(i) == content[i] = "\n"
        lf == SelectSeq(Indices(content), IsLF)
        First(k) == IF k = 1 THEN 1 ELSE lf[k - 1] + 1
        Last(k) == IF k > Len(lf) THEN n
                   ELSE IF lf[k] > First(k) /\ content[lf[k] - 1] = "\r" THEN lf[k] - 2
                   ELSE lf[k] - 1
    IN  [k \in 1..(Len(lf) + 1) |-> SubSeq(content, First(k), Last(k))]

\* line.indexOf(':'), from 1; 0 when there is none
indexOfColon(line) ==
    IF \E i \in 1..Len(line) : line[i] = ":"
    THEN CHOOSE i \in 1..Len(line) : line[i] = ":" /\ \A j \in 1..(i - 1) : line[j] # ":"
    ELSE 0

\* the end of the run of digits that starts at i (the index after it)
RECURSIVE digitsEnd(_, _)
digitsEnd(s, i) == IF i <= Len(s) /\ IsDigit(s[i]) THEN digitsEnd(s, i + 1) ELSE i

\* value.match(/<pre>(\d+)M/): the number of the leftmost match, else Undefined
matchMinutes(value, pre) ==
    LET hits == {i \in 1..Len(value) :
                   /\ MatchAt(value, i, pre)
                   /\ digitsEnd(value, i + Len(pre)) > i + Len(pre)
                   /\ digitsEnd(value, i + Len(pre)) <= Len(value)
                   /\ value[digitsEnd(value, i + Len(pre))] = "M"}
    IN  IF hits = {} THEN Undefined
        ELSE LET i == CHOOSE h \in hits : \A g \in hits : h <= g
             IN  Def(DigitsToNat(SubSeq(value, i + Len(pre),
                                        digitsEnd(value, i + Len(pre)) - 1), 0))

\* parseInt(value, 10)
parseInt(value) ==
    LET t    == TrimLeft(value)
        neg  == t # <<>> /\ Head(t) = "-"
        body == IF t # <<>> /\ Head(t) \in {"-", "+"} THEN Tail(t) ELSE t
        e    == digitsEnd(body, 1)
    IN  IF e = 1 THEN NaN
        ELSE LET n == DigitsToNat(SubSeq(body, 1, e - 1), 0)
             IN  Def(IF neg THEN 0 - n ELSE n)

\* value.replace(/@clawcal$/, '')
stripDomain(value) ==
    IF value # <<>> /\ value[Len(value)] = "@clawcal"
    THEN SubSeq(value, 1, Len(value) - 1) ELSE value

EmptyAlert == [minutes |-> Undefined, description |-> Undefined]

parseAlarmProp(alert, key, value) ==
    CASE key = <<"TRIGGER">> ->
           LET m == matchMinutes(value, <<"-", "PT">>)
           IN  IF IsDef(m) THEN [alert EXCEPT !.minutes = m] ELSE alert
      [] key = <<"DESCRIPTION">> -> [alert EXCEPT !.description = Def(unescapeICS(value))]
      [] OTHER -> alert

parseEventProp(current, key, value) ==
    CASE key = <<"UID">> -> [current EXCEPT !.uid = Def(stripDomain(value))]
      [] key = <<"SUMMARY">> -> [current EXCEPT !.title = Def(unescapeICS(value))]
      [] key = <<"DESCRIPTION">> -> [current EXCEPT !.description = Def(unescapeICS(value))]
      [] key = <<"DTSTART">> -> [current EXCEPT !.start = parseICSDate(value)]
      [] key = <<"DTSTART;VALUE=DATE">> ->
           [current EXCEPT !.start = parseICSDateOnly(value), !.allDay = Def(TRUE)]
      [] key = <<"DTEND">> -> [current EXCEPT !.end = parseICSDate(value)]
      [] key = <<"DTEND;VALUE=DATE">> -> [current EXCEPT !.end = parseICSDateOnly(value)]
      [] key = <<"DURATION">> ->
           LET m == matchMinutes(value, <<"PT">>)
           IN  IF IsDef(m) THEN [current EXCEPT !.duration = m] ELSE current
      [] key = <<"CATEGORIES">> -> [current EXCEPT !.category = Def(value)]
      [] key = <<"STATUS">> -> [current EXCEPT !.status = Def(reverseMapStatus(value))]
      [] key = <<"SEQUENCE">> -> [current EXCEPT !.sequence = parseInt(value)]
      [] key = <<"RRULE">> -> [current EXCEPT !.rrule = Def(value)]
      [] key = <<"X-OPENCLAW-AGENT">> -> [current EXCEPT !.agent = Def(unescapeICS(value))]
      [] key = <<"X-OPENCLAW-PROJECT">> -> [current EXCEPT !.project = Def(unescapeICS(value))]
      [] key = <<"URL">> -> [current EXCEPT !.url = Def(value)]
      [] OTHER -> current

\* the state of the loop: the Map, current (null is Undefined), inAlarm,
\* currentAlert (null is Undefined)
parseLine(st, line) ==
    IF line = <<"BEGIN", ":", "VEVENT">> THEN [st EXCEPT !.current = Def(EmptyEvent)]
    ELSE IF line = <<"END", ":", "VEVENT">> /\ IsDef(st.current)
    THEN LET cur == Val(st.current)
         IN  [st EXCEPT
                !.events = IF TruthyStr(cur.uid) /\ NotNull(cur.start)
                           THEN MapSet(@, Val(cur.uid), cur) ELSE @,
                !.current = Undefined]
    ELSE IF ~IsDef(st.current) THEN st
    ELSE IF line = <<"BEGIN", ":", "VALARM">>
    THEN [st EXCEPT !.inAlarm = TRUE, !.currentAlert = Def(EmptyAlert)]
    ELSE IF line = <<"END", ":", "VALARM">>
    THEN [st EXCEPT
            !.current = IF IsDef(st.currentAlert) /\ NotNull(Val(st.currentAlert).minutes)
                        THEN Def([Val(@) EXCEPT !.alerts =
                                    Def((IF IsDef(@) THEN Val(@) ELSE <<>>)
                                        \o <<Val(st.currentAlert)>>)])
                        ELSE @,
            !.inAlarm = FALSE,
            !.currentAlert = Undefined]
    ELSE LET colonIdx == indexOfColon(line)
             key      == SubSeq(line, 1, colonIdx - 1)
             value    == SubSeq(line, colonIdx + 1, Len(line))
         IN  IF colonIdx = 0 THEN st
             ELSE IF st.inAlarm /\ IsDef(st.currentAlert)
             THEN [st EXCEPT !.currentAlert = Def(parseAlarmProp(Val(@), key, value))]
             ELSE [st EXCEPT !.current = Def(parseEventProp(Val(@), key, value))]

\* the loop over lines[lo..hi], by halves; the state after the first half
\* is computed before the second half starts
RECURSIVE parseLines(_, _, _, _)
parseLines(st, lines, lo, hi) ==
    IF lo > hi THEN st
    ELSE IF lo = hi THEN parseLine(st, lines[lo])
    ELSE LET half == parseLines(st, lines, lo, (lo + hi) \div 2)
         IN  IF half.inAlarm \in BOOLEAN
             THEN parseLines(half, lines, (lo + hi) \div 2 + 1, hi)
             ELSE half

\* the Map that loadExisting leaves: the entries of events, then those of
\* the blocks of content
parseICS(events, content) ==
    LET lines == splitLines(unfold(content))
    IN  parseLines([events |-> events, current |-> Undefined, inAlarm |-> FALSE,
                    currentAlert |-> Undefined], lines, 1, Len(lines)).events


----------------------------------------------------------------------------
(* CalendarManager: a store is [filePath, calendarName, events]; every     *)
(* method takes the store, the disk and the clock and gives a result       *)
(* [cm, disk, error, wrote, found, removed]                                *)

Result(cm, d, error, wrote, found, removed) ==
    [cm |-> cm, disk |-> d, error |-> error, wrote |-> wrote, found |-> found,
     removed |-> removed]

\* A file written by a store is kept as what toICS was given (the calendar
\* name, the Map and the clock of the write); its text is the rendering of that.
File(cm, clock) == [calendarName |-> cm.calendarName, events |-> cm.events, clock |-> clock]

\* what readFileSync(path, 'utf-8') returns of a text that writeFileSync(path,
\* text, 'utf-8') wrote: a code unit HI or LO that is not part of a pair HI LO
\* is encoded as U+FFFD
Utf8RoundTrip(text) ==
    [i \in 1..Len(text) |->
        IF \/ text[i] = "HI" /\ ~(i < Len(text) /\ text[i + 1] = "LO")
           \/ text[i] = "LO" /\ ~(i > 1 /\ text[i - 1] = "HI")
        THEN "FFFD" ELSE text[i]]

\* readFileSync(filePath, 'utf-8'); a file that no store of this model wrote,
\* or that a write left unfinished, is kept as its text
Content(file) == IF "raw" \in DOMAIN file THEN file.raw
                 ELSE Utf8RoundTrip(toICS(file, file.clock))

\* eventToVEvent throws: escapeICS of an undefined title is a TypeError,
\* toISOString of an undefined or invalid start or of an invalid end is a
\* TypeError or a RangeError
eventThrows(event) ==
    \/ ~IsDef(event.title)
    \/ ~IsDef(event.start)
    \/ IsNaN(event.end)

\* toICS() throws
RenderThrows(cm) == \E i \in 1..Len(cm.events) : eventThrows(cm.events[i].value)

\* writeFileSync(filePath, ...) throws: the file exists and may not be written
Unwritable(d, filePath) == filePath \in DOMAIN d /\ "readonly" \in DOMAIN d[filePath]

\* write(): toICS, then writeFileSync; an exception leaves the file alone
write(cm, d, clock, found, removed) ==
    IF RenderThrows(cm) \/ Unwritable(d, cm.filePath)
    THEN Result(cm, d, TRUE, FALSE, found, removed)
    ELSE Result(cm, (cm.filePath :> File(cm, clock)) @@ d, FALSE, TRUE, found, removed)

\* loadExisting(): nothing when the file does not exist
loadExisting(filePath, d) ==
    IF filePath \in DOMAIN d THEN parseICS(<<>>, Content(d[filePath])) ELSE <<>>

\* new CalendarManager(filePath, calendarName)
newCalendarManager(filePath, calendarName, d) ==
    [filePath |-> filePath, calendarName |-> calendarName,
     events |-> loadExisting(filePath, d)]

addEvent(cm, d, clock, event) ==
    IF ~CanSanitize(event) THEN Result(cm, d, TRUE, FALSE, FALSE, 0)
    ELSE write([cm EXCEPT !.events = MapSet(@, Val(event.uid), sanitizeEvent(event))],
               d, clock, MapHas(cm.events, Val(event.uid)), 0)

\* a sequence that an update leaves as it was
sequenceKept(existing) ==
    Def(IF TruthyNum(existing.sequence) THEN Val(existing.sequence) ELSE 0)

\* (existing.sequence || 0) + 1
nextSequence(existing) ==
    Def((IF TruthyNum(existing.sequence) THEN Val(existing.sequence) ELSE 0) + 1)

\* an update that writes the file also when the uid is not held
updateEventWrites(cm, d, clock, uid, updates) ==
    LET existing == MapGet(cm.events, uid)
        merged == [Spread(Val(existing), updates) EXCEPT
                     !.sequence = nextSequence(Val(existing))]
    IN  IF ~IsDef(existing) THEN write(cm, d, clock, FALSE, 0)
        ELSE write([cm EXCEPT !.events = MapSet(@, uid, sanitizeEvent(merged))],
                   d, clock, TRUE, 0)

updateEvent(cm, d, clock, uid, updates) ==
    LET existing == MapGet(cm.events, uid)
        merged == [Spread(Val(existing), updates) EXCEPT
                     !.sequence = nextSequence(Val(existing))]
    IN  IF ~IsDef(existing) THEN Result(cm, d, FALSE, FALSE, FALSE, 0)
        ELSE IF ~CanSanitize(merged) THEN Result(cm, d, TRUE, FALSE, TRUE, 0)
        ELSE write([cm EXCEPT !.events = MapSet(@, uid, sanitizeEvent(merged))],
                   d, clock, TRUE, 0)

CancelUpdates == [status |-> Def("CANCELLED")]

cancelEvent(cm, d, clock, uid) == updateEvent(cm, d, clock, uid, CancelUpdates)

removeEvent(cm, d, clock, uid) ==
    write([cm EXCEPT !.events = MapDelete(@, uid)], d, clock,
          MapHas(cm.events, uid), 0)

IsCompleted(event) == IsDef(event.status) /\ Val(event.status) = "COMPLETED"

\* event.start < cutoff: false for an undefined or invalid start
StartsBefore(event, cutoff) == IsDef(event.start) /\ Val(event.start) < cutoff

\* a retention loop that does not look at the status
expiredAnyStatus(entry, cutoff) == StartsBefore(entry.value, cutoff)

\* a retention loop that deletes nothing
neverExpired(entry, cutoff) == FALSE

\* the entries the first loop of cleanup deletes
Expired(entry, cutoff) == StartsBefore(entry.value, cutoff) /\ IsCompleted(entry.value)

\* this.events.size > maxEvents
OverMax(events, maxEvents) == Len(events) > maxEvents

\* the keys of the first k entries of the completed ones, sorted by start
\* (Array.prototype.sort is stable: equal starts keep the Map's order)
oldestCompleted(events, k) ==
    LET IsComp(entry) == IsCompleted(entry.value)
        completed == SelectSeq(events, IsComp)
        Rank(i) == Cardinality({j \in 1..Len(completed) :
                      \/ Val(completed[j].value.start) < Val(completed[i].value.start)
                      \/ /\ Val(completed[j].value.start) = Val(completed[i].value.start)
                         /\ j < i})
    IN  {completed[i].key : i \in {i \in 1..Len(completed) : Rank(i) < k}}

cleanup(cm, d, clock, retentionDays, maxEvents) ==
    LET cutoff == clock - retentionDays * MsPerDay
        Fresh(entry) == ~Expired(entry, cutoff)
        kept1 == SelectSeq(cm.events, Fresh)
        removed1 == Len(cm.events) - Len(kept1)
        gone == IF OverMax(kept1, maxEvents)
                THEN oldestCompleted(kept1, Len(kept1) - maxEvents) ELSE {}
        Stays(entry) == entry.key \notin gone
        kept2 == SelectSeq(kept1, Stays)
        removed == removed1 + Cardinality(gone)
        cm2 == [cm EXCEPT !.events = kept2]
    IN  IF removed > 0 THEN write(cm2, d, clock, FALSE, removed)
        ELSE Result(cm2, d, FALSE, FALSE, FALSE, removed)

getEvent(cm, uid) == MapGet(cm.events, uid)

\* getAllEvents()
getAllEvents(cm) == [i \in 1..Len(cm.events) |-> cm.events[i].value]

----------------------------------------------------------------------------
(* FeedManager: a router is [combined, agentFeeds, feedsConfig]; combined  *)
(* is Undefined (null) or a store, agentFeeds a Map from agent id to       *)
(* store. localPush is null. Every method gives [fm, disk, error].         *)
(* The dash of the calendar names (U+2014) is the atom E3.                 *)

FmResult(fm, d, error) == [fm |-> fm, disk |-> d, error |-> error]

\* the directory of the feeds, and join(directory, file)
Directory == "feeds/"

join(directory, file) == <<directory>> \o file

\* readdirSync(directory)
readdir(directory, d) == {Tail(f) : f \in {g \in DOMAIN d : Head(g) = directory}}

CombinedFile == <<"a", "l", "l", "-", "a", "g", "e", "n", "t", "s", ".ics">>

LegacyFile == <<"a", "g", "e", "n", "t", "-", "c", "a", "l", "e", "n", "d", "a", "r", ".ics">>

CombinedName == <<"OpenClaw ", "E3", " All Agents">>

AgentName(agentId) == <<"OpenClaw ", "E3", " ">> \o agentId

\* [a-zA-Z0-9_-]
SafeChars ==
    {"a", "b", "c", "d", "e", "f", "g", "h", "i", "j", "k", "l", "m", "n", "o", "p",
     "q", "r", "s", "t", "u", "v", "w", "x", "y", "z",
     "A", "B", "C", "D", "E", "F", "G", "H", "I", "J", "K", "L", "M", "N", "O", "P",
     "Q", "R", "S", "T", "U", "V", "W", "X", "Y", "Z", "_", "-"}
    \cup {Digit[k] : k \in 1..10}

\* agentId.replace(/[^a-zA-Z0-9_-]/, '-'): the first such character only
safeNameFirst(agentId) ==
    [i \in 1..Len(agentId) |->
        IF agentId[i] \notin SafeChars /\ \A j \in 1..(i - 1) : agentId[j] \in SafeChars
        THEN "-" ELSE agentId[i]]

\* agentId.replace(/[^a-zA-Z0-9_-]/g, '-')
safeName(agentId) ==
    [i \in 1..Len(agentId) |-> IF agentId[i] \in SafeChars THEN agentId[i] ELSE "-"]

\* file.endsWith('.ics') and file.replace(/\.ics$/, '')
EndsWithIcs(file) == file # <<>> /\ file[Len(file)] = ".ics"

AgentIdOf(file) == SubSeq(file, 1, Len(file) - 1)

\* the files the constructor loads as per-agent feeds
Discoverable(d) ==
    {file \in readdir(Directory, d) :
        EndsWithIcs(file) /\ file # CombinedFile /\ file # LegacyFile}

\* the orders in which readdirSync may list them
ListingOrders(d) ==
    {order \in [1..Cardinality(Discoverable(d)) -> Discoverable(d)] :
        \A i, j \in DOMAIN order : i # j => order[i] # order[j]}

\* the fields of a new FeedManager, given the stores constructed on
\* all-agents.ics (stores[1]) and on the files listed
feedManagerOf(config, order, stores) ==
    LET HasEvents(i) == Len(getAllEvents(stores[i + 1])) > 0
        loaded == SelectSeq(Indices(order), HasEvents)
    IN  [combined |-> IF config.combined THEN Def(stores[1]) ELSE Undefined,
         agentFeeds |-> IF config.per_agent
                        THEN [i \in 1..Len(loaded) |->
                                [key |-> AgentIdOf(order[loaded[i]]),
                                 value |-> stores[loaded[i] + 1]]]
                        ELSE <<>>,
         feedsConfig |-> config]

\* new FeedManager(directory, feedsConfig), the directory listed as order
newFeedManager(config, d, order) ==
    feedManagerOf(config, order,
        [i \in 1..(Len(order) + 1) |->
            newCalendarManager(
                join(Directory, IF i = 1 THEN CombinedFile ELSE order[i - 1]),
                IF i = 1 THEN CombinedName ELSE AgentName(AgentIdOf(order[i - 1])),
                d)])


\* getOrCreateAgentFeed(agentId): the router with the feed in agentFeeds
getOrCreateAgentFeed(fm, d, agentId) ==
    IF MapHas(fm.agentFeeds, agentId) THEN fm
    ELSE [fm EXCEPT !.agentFeeds =
            MapSet(@, agentId,
                   newCalendarManager(join(Directory, safeName(agentId) \o <<".ics">>),
                                      AgentName(agentId), d))]



getAgentFeed(fm, agentId) == MapGet(fm.agentFeeds, agentId)

\* Array.from(this.agentFeeds.keys())
getAgentIds(fm) == [i \in 1..Len(fm.agentFeeds) |-> fm.agentFeeds[i].key]

\* a call on the combined store: nothing when combined is null
NoCall(d) == Result(<<>>, d, FALSE, FALSE, FALSE, 0)

WithCombined(fm, r) == IF IsDef(fm.combined) THEN [fm EXCEPT !.combined = Def(r.cm)] ELSE fm

\* an add that reaches the combined store only
fmAddEventCombinedOnly(fm, d, clock, event) ==
    LET r1 == IF IsDef(fm.combined) THEN addEvent(Val(fm.combined), d, clock, event)
              ELSE NoCall(d)
    IN  FmResult(WithCombined(fm, r1), r1.disk, r1.error)

\* an add that files an event without agent under the agent 'none'
fmAddEventAnyAgent(fm, d, clock, event) ==
    LET r1  == IF IsDef(fm.combined) THEN addEvent(Val(fm.combined), d, clock, event)
               ELSE NoCall(d)
        fm1 == WithCombined(fm, r1)
    IN  IF r1.error THEN FmResult(fm1, r1.disk, TRUE)
        ELSE IF ~fm.feedsConfig.per_agent
        THEN FmResult(fm1, r1.disk, FALSE)
        ELSE LET agentId == IF TruthyStr(event.agent) THEN Val(event.agent)
                            ELSE <<"n", "o", "n", "e">>
                 fm2 == getOrCreateAgentFeed(fm1, r1.disk, agentId)
                 r2  == addEvent(Val(MapGet(fm2.agentFeeds, agentId)), r1.disk, clock, event)
             IN  FmResult([fm2 EXCEPT !.agentFeeds = MapSet(@, agentId, r2.cm)],
                          r2.disk, r2.error)

fmAddEvent(fm, d, clock, event) ==
    LET r1  == IF IsDef(fm.combined) THEN addEvent(Val(fm.combined), d, clock, event)
               ELSE NoCall(d)
        fm1 == WithCombined(fm, r1)
    IN  IF r1.error THEN FmResult(fm1, r1.disk, TRUE)
        ELSE IF ~(fm.feedsConfig.per_agent /\ TruthyStr(event.agent))
        THEN FmResult(fm1, r1.disk, FALSE)
        ELSE LET agentId == Val(event.agent)
                 fm2 == getOrCreateAgentFeed(fm1, r1.disk, agentId)
                 r2  == addEvent(Val(MapGet(fm2.agentFeeds, agentId)), r1.disk, clock, event)
             IN  FmResult([fm2 EXCEPT !.agentFeeds = MapSet(@, agentId, r2.cm)],
                          r2.disk, r2.error)

\* a loop that ends after the first feed that holds the uid
RECURSIVE updateFirstFeed(_, _, _, _, _, _)
updateFirstFeed(feeds, d, clock, uid, updates, i) ==
    IF i > Len(feeds) THEN [feeds |-> feeds, disk |-> d, error |-> FALSE]
    ELSE IF ~IsDef(getEvent(feeds[i].value, uid))
    THEN updateFirstFeed(feeds, d, clock, uid, updates, i + 1)
    ELSE LET r == updateEvent(feeds[i].value, d, clock, uid, updates)
         IN  [feeds |-> [feeds EXCEPT ![i].value = r.cm], disk |-> r.disk,
              error |-> r.error]

\* the loop over agentFeeds.values() from the i-th feed on; an exception ends it
RECURSIVE updateFeeds(_, _, _, _, _, _)
updateFeeds(feeds, d, clock, uid, updates, i) ==
    IF i > Len(feeds) THEN [feeds |-> feeds, disk |-> d, error |-> FALSE]
    ELSE IF ~IsDef(getEvent(feeds[i].value, uid))
    THEN updateFeeds(feeds, d, clock, uid, updates, i + 1)
    ELSE LET r == updateEvent(feeds[i].value, d, clock, uid, updates)
             feeds2 == [feeds EXCEPT ![i].value = r.cm]
         IN  IF r.error THEN [feeds |-> feeds2, disk |-> r.disk, error |-> TRUE]
             ELSE updateFeeds(feeds2, r.disk, clock, uid, updates, i + 1)

fmUpdateEvent(fm, d, clock, uid, updates) ==
    LET r1  == IF IsDef(fm.combined)
               THEN updateEvent(Val(fm.combined), d, clock, uid, updates)
               ELSE NoCall(d)
        fm1 == WithCombined(fm, r1)
    IN  IF r1.error THEN FmResult(fm1, r1.disk, TRUE)
        ELSE LET r2 == updateFeeds(fm1.agentFeeds, r1.disk, clock, uid, updates, 1)
             IN  FmResult([fm1 EXCEPT !.agentFeeds = r2.feeds], r2.disk, r2.error)

fmCancelEvent(fm, d, clock, uid) == fmUpdateEvent(fm, d, clock, uid, CancelUpdates)

RECURSIVE removeFromFeeds(_, _, _, _, _)
removeFromFeeds(feeds, d, clock, uid, i) ==
    IF i > Len(feeds) THEN [feeds |-> feeds, disk |-> d, error |-> FALSE]
    ELSE IF ~IsDef(getEvent(feeds[i].value, uid))
    THEN removeFromFeeds(feeds, d, clock, uid, i + 1)
    ELSE LET r == removeEvent(feeds[i].value, d, clock, uid)
             feeds2 == [feeds EXCEPT ![i].value = r.cm]
         IN  IF r.error THEN [feeds |-> feeds2, disk |-> r.disk, error |-> TRUE]
             ELSE removeFromFeeds(feeds2, r.disk, clock, uid, i + 1)

fmRemoveEvent(fm, d, clock, uid) ==
    LET r1  == IF IsDef(fm.combined) THEN removeEvent(Val(fm.combined), d, clock, uid)
               ELSE NoCall(d)
        fm1 == WithCombined(fm, r1)
    IN  IF r1.error THEN FmResult(fm1, r1.disk, TRUE)
        ELSE LET r2 == removeFromFeeds(fm1.agentFeeds, r1.disk, clock, uid, 1)
             IN  FmResult([fm1 EXCEPT !.agentFeeds = r2.feeds], r2.disk, r2.error)

\* the loop of FeedManager.cleanup over the agent feeds; an exception of a
\* write ends it
RECURSIVE cleanupFeeds(_, _, _, _, _, _, _)
cleanupFeeds(feeds, d, clock, retentionDays, maxEvents, i, removed) ==
    IF i > Len(feeds)
    THEN [feeds |-> feeds, disk |-> d, error |-> FALSE, removed |-> removed]
    ELSE LET r == cleanup(feeds[i].value, d, clock, retentionDays, maxEvents)
         IN  IF r.error
             THEN [feeds |-> [feeds EXCEPT ![i].value = r.cm], disk |-> r.disk,
                   error |-> TRUE, removed |-> removed]
             ELSE cleanupFeeds([feeds EXCEPT ![i].value = r.cm], r.disk, clock,
                               retentionDays, maxEvents, i + 1, removed + r.removed)

\* cleanup(retentionDays, maxEvents): the combined store, then every agent feed
fmCleanup(fm, d, clock, retentionDays, maxEvents) ==
    LET r1  == IF IsDef(fm.combined)
               THEN cleanup(Val(fm.combined), d, clock, retentionDays, maxEvents)
               ELSE NoCall(d)
        fm1 == WithCombined(fm, r1)
    IN  IF r1.error THEN FmResult(fm1, r1.disk, TRUE)
        ELSE LET r2 == cleanupFeeds(fm1.agentFeeds, r1.disk, clock, retentionDays,
                                    maxEvents, 1, r1.removed)
             IN  FmResult([fm1 EXCEPT !.agentFeeds = r2.feeds], r2.disk, r2.error)

\* getEvent(uid): the combined store first, then the feeds in the Map's order
fmGetEvent(fm, uid) ==
    IF IsDef(fm.combined) /\ IsDef(getEvent(Val(fm.combined), uid))
    THEN getEvent(Val(fm.combined), uid)
    ELSE LET holders == {i \in 1..Len(fm.agentFeeds) :
                           IsDef(getEvent(fm.agentFeeds[i].value, uid))}
         IN  IF holders = {} THEN Undefined
             ELSE getEvent(fm.agentFeeds[CHOOSE i \in holders : \A j \in holders : i <= j].value,
                           uid)

\* the events of the agent feeds in the Map's order, the first of each uid
RECURSIVE mergeFeeds(_, _, _)
mergeFeeds(feeds, i, events) ==
    IF i > Len(feeds) THEN events
    ELSE LET Seen(e) == \E k \in 1..Len(events) : events[k].uid = e.uid
             Unseen(e) == ~Seen(e)
         IN  mergeFeeds(feeds, i + 1,
                        events \o SelectSeq(getAllEvents(feeds[i].value), Unseen))

\* getAllEvents(): those of the combined store, else the feeds merged
fmGetAllEvents(fm) ==
    IF IsDef(fm.combined) THEN getAllEvents(Val(fm.combined))
    ELSE mergeFeeds(fm.agentFeeds, 1, <<>>)

----------------------------------------------------------------------------
(* The listener: task completions and their daily aggregate                *)

\* String.prototype.split('\n')
splitNewline(text) ==
    LET IsLF(i) == text[i] = "\n"
        lf == SelectSeq(Indices(text), IsLF)
        First(k) == IF k = 1 THEN 1 ELSE lf[k - 1] + 1
        Last(k) == IF k > Len(lf) THEN Len(text) ELSE lf[k] - 1
    IN  [k \in 1..(Len(lf) + 1) |-> SubSeq(text, First(k), Last(k))]

\* Array.prototype.join('\n')
joinNewline(parts) ==
    Concat([k \in 1..Len(parts) |-> IF k = 1 THEN parts[k] ELSE <<"\n">> \o parts[k]])

\* Date.prototype.toISOString().slice(0, 10)
isoDay(ms) ==
    LET c == CivilFromDays(ms \div MsPerDay)
    IN  Pad(c.y, 4) \o <<"-">> \o Pad(c.m, 2) \o <<"-">> \o Pad(c.d, 2)

CompletedCategory == <<"c", "o", "m", "p", "l", "e", "t", "e", "d">>

\* alertsForCategory('completed', defaults)
alertsForCategory(defaults) ==
    IF ~IsDef(defaults.alerts) THEN Undefined
    ELSE LET minutes == Val(defaults.alerts).task_completions
         IN  IF Len(minutes) = 0 THEN Undefined
             ELSE Def([i \in 1..Len(minutes) |->
                         [minutes |-> Def(minutes[i]), description |-> Undefined]])

formatDescription(event) ==
    joinNewline((IF TruthyStr(event.description) THEN <<Val(event.description)>> ELSE <<>>)
        \o (IF TruthyStr(event.agentId)
            THEN << <<"A", "g", "e", "n", "t", ":", " ">> \o Val(event.agentId) >> ELSE <<>>)
        \o (IF TruthyStr(event.workspace)
            THEN << <<"P", "r", "o", "j", "e", "c", "t", ":", " ">> \o Val(event.workspace) >>
            ELSE <<>>))

\* E3 is the check mark, a character of three octets
fromTaskCompleteEvent(event, defaults) ==
    [EmptyEvent EXCEPT
       !.uid = Def(event.id),
       !.title = Def(<<"E3", " ">> \o event.summary),
       !.description = Def(formatDescription(event)),
       !.start = Def(event.completedAt),
       !.allDay = Def(TRUE),
       !.category = Def(CompletedCategory),
       !.agent = event.agentId,
       !.project = event.workspace,
       !.status = Def("COMPLETED"),
       !.alerts = alertsForCategory(defaults)]

\* a key that leaves the day out
dailyUidNoDay(agentId, date) ==
    <<"d", "a", "i", "l", "y", "-", "t", "a", "s", "k", "s", "-">> \o agentId

\* `daily-tasks-${agentId}-${dateStr}`
dailyUid(agentId, date) ==
    <<"d", "a", "i", "l", "y", "-", "t", "a", "s", "k", "s", "-">> \o agentId
       \o <<"-">> \o isoDay(date)

\* tasks is the sequence of the summaries
buildDailyTaskAggregate(agentId, date, tasks) ==
    [EmptyEvent EXCEPT
       !.uid = Def(dailyUid(agentId, date)),
       !.title = Def(<<"S", "h", "i", "p", "p", "e", "d", " ">> \o NatToText(Len(tasks))
                     \o (IF Len(tasks) = 1 THEN <<" ", "t", "a", "s", "k">>
                         ELSE <<" ", "t", "a", "s", "k", "s">>)
                     \o <<" ", "-", "-", " ">> \o agentId),
       !.description = Def(joinNewline([k \in 1..Len(tasks) |-> <<"-", " ">> \o tasks[k]])),
       !.start = Def(date),
       !.allDay = Def(TRUE),
       !.category = Def(CompletedCategory),
       !.agent = Def(agentId),
       !.status = Def("COMPLETED")]

startsWithBullet(l) == MatchAt(l, 1, <<"-", " ">>)

\* (existing.description || '').split('\n').filter(...).map(l => l.slice(2))
existingTasks(existing) ==
    LET lines == SelectSeq(splitNewline(IF TruthyStr(existing.description)
                                        THEN Val(existing.description) ELSE <<>>),
                           startsWithBullet)
    IN  [k \in 1..Len(lines) |-> SubSeq(lines[k], 3, Len(lines[k]))]

\* event.agentId || 'unknown'
sourceOf(event) ==
    IF TruthyStr(event.agentId) THEN Val(event.agentId)
    ELSE <<"u", "n", "k", "n", "o", "w", "n">>

\* the handler of agent:task:complete on the sink cm; call is the call it
\* made on the sink for the daily aggregate
onTaskComplete(cm, d, clock, config, event) ==
    LET timed == [fromTaskCompleteEvent(event, config.defaults) EXCEPT
                    !.allDay = Def(FALSE), !.duration = Def(15)]
        own == IF config.mode = "off" THEN Result(cm, d, FALSE, FALSE, FALSE, 0)
               ELSE addEvent(cm, d, clock,
                             IF config.mode = "timed" THEN timed
                             ELSE fromTaskCompleteEvent(event, config.defaults))
        agentId == sourceOf(event)
        aggUid == dailyUid(agentId, event.completedAt)
        existing == getEvent(own.cm, aggUid)
        updated == buildDailyTaskAggregate(agentId, event.completedAt,
                       Append(existingTasks(Val(existing)), event.summary))
        agg == IF IsDef(existing)
               THEN updateEvent(own.cm, own.disk, clock, aggUid,
                                [title |-> updated.title,
                                 description |-> updated.description])
               ELSE addEvent(own.cm, own.disk, clock,
                             buildDailyTaskAggregate(agentId, event.completedAt,
                                                     <<event.summary>>))
    IN  IF own.error \/ config.aggregate # "daily" THEN [r |-> own, call |-> "none"]
        ELSE [r |-> [agg EXCEPT !.wrote = @ \/ own.wrote],
              call |-> IF IsDef(existing) THEN "update" ELSE "add"]

----------------------------------------------------------------------------
(* State                                                                   *)
(*   now         the clock, Date.now()                                     *)
(*   disk        the files that exist: path -> File                        *)
(*   cal         a CalendarManager used on its own                         *)
(*   combined, agentFeeds, feedsConfig    the fields of a FeedManager      *)
(*   lastOp      the last call, its argument (a uid, or the two numbers of *)
(*               cleanup) and what it did (kept when lastOp.log)           *)
(*   hist        per uid, since its add in this store object: the sequence *)
(*               it was added with and the updates that succeeded since    *)
(*   tcConfig    config.events.task_completions and config.taskCompletions *)
(*   delivered   the task completions handed to the listener so far: the   *)
(*               source and day of each, its summary and the call made on  *)
(*               the store for the daily aggregate                         *)
(*   writing     the file that a writeFileSync in flight is writing        *)
(*   input, output   the arguments given to a function studied on its own  *)
(*               and what it returned                                      *)
(*   localPush   the LocalCalendarPush of the FeedManager (null is         *)
(*               Undefined)                                                *)
(*   pushed      the scripts handed to osascript so far                    *)
(*   cancelled   per uid: "yes" since cancel succeeded, "overridden" once  *)
(*               an add or an update carrying a status followed, "no"      *)
(*               when never cancelled or deleted since                     *)
(* hist and cancelled follow the uids of their domain only.                *)

Day(n) == n * MsPerDay

TestFile == <<"test", ".ics">>

TestName == <<"Test Calendar">>

NoOp == [log |-> FALSE, op |-> "none", arg |-> <<>>, found |-> FALSE,
         removed |-> 0, wrote |-> FALSE, error |-> FALSE]

Log(op, arg, r) ==
    IF lastOp.log
    THEN [log |-> TRUE, op |-> op, arg |-> arg, found |-> r.found,
          removed |-> r.removed, wrote |-> r.wrote, error |-> r.error]
    ELSE lastOp

Track(f, u, v) == IF u \in DOMAIN f THEN [f EXCEPT ![u] = v] ELSE f

\* the uids of f's domain that left the store
Forget(f, before, after, v) ==
    [u \in DOMAIN f |-> IF MapHas(before, u) /\ ~MapHas(after, u) THEN v ELSE f[u]]

Overridden(u) == IF u \in DOMAIN cancelled /\ cancelled[u] # "no"
                 THEN Track(cancelled, u, "overridden") ELSE cancelled

FeedVars == <<combined, agentFeeds, feedsConfig>>

ListenerVars == <<tcConfig, delivered>>

PushVars == <<localPush, pushed>>

OtherVars == <<writing, input, output, PushVars>>

\* no LocalCalendarPush was given to the FeedManager
PushInit == localPush = Undefined /\ pushed = <<>>

\* no write in flight, no function under study
OtherInit == writing = Undefined /\ input = Undefined /\ output = Undefined /\ PushInit

\* config.events.task_completions is off: no handler is registered
NoTaskCompletions == [enabled |-> FALSE, mode |-> "off", aggregate |-> "none"]

----------------------------------------------------------------------------
(* Calls on the CalendarManager cal                                        *)

AddEvent(event) ==
    LET r == addEvent(cal, disk, now, event)
        u == Val(event.uid)
    IN  /\ cal' = r.cm
        /\ disk' = r.disk
        /\ lastOp' = Log("add", u, r)
        /\ hist' = IF r.error THEN hist
                   ELSE Track(hist, u, Def([s |-> IF IsDef(event.sequence)
                                                  THEN Val(event.sequence) ELSE 0,
                                            k |-> 0]))
        /\ cancelled' = IF r.error THEN cancelled ELSE Overridden(u)
        /\ UNCHANGED <<now, FeedVars, ListenerVars, OtherVars>>

UpdateEvent(uid, updates) ==
    LET r == updateEvent(cal, disk, now, uid, updates)
    IN  /\ cal' = r.cm
        /\ disk' = r.disk
        /\ lastOp' = Log("update", uid, r)
        /\ hist' = IF r.found /\ ~r.error /\ uid \in DOMAIN hist /\ IsDef(hist[uid])
                   THEN Track(hist, uid, Def([Val(hist[uid]) EXCEPT !.k = @ + 1]))
                   ELSE hist
        /\ cancelled' = IF r.found /\ ~r.error /\ "status" \in DOMAIN updates
                        THEN Overridden(uid) ELSE cancelled
        /\ UNCHANGED <<now, FeedVars, ListenerVars, OtherVars>>

CancelEvent(uid) ==
    LET r == cancelEvent(cal, disk, now, uid)
    IN  /\ cal' = r.cm
        /\ disk' = r.disk
        /\ lastOp' = Log("cancel", uid, r)
        /\ hist' = IF r.found /\ ~r.error /\ uid \in DOMAIN hist /\ IsDef(hist[uid])
                   THEN Track(hist, uid, Def([Val(hist[uid]) EXCEPT !.k = @ + 1]))
                   ELSE hist
        /\ cancelled' = IF r.found /\ ~r.error THEN Track(cancelled, uid, "yes")
                        ELSE cancelled
        /\ UNCHANGED <<now, FeedVars, ListenerVars, OtherVars>>

RemoveEvent(uid) ==
    LET r == removeEvent(cal, disk, now, uid)
    IN  /\ cal' = r.cm
        /\ disk' = r.disk
        /\ lastOp' = Log("remove", uid, r)
        /\ hist' = Track(hist, uid, Undefined)
        /\ cancelled' = Track(cancelled, uid, "no")
        /\ UNCHANGED <<now, FeedVars, ListenerVars, OtherVars>>

Cleanup(retentionDays, maxEvents) ==
    LET r == cleanup(cal, disk, now, retentionDays, maxEvents)
    IN  /\ cal' = r.cm
        /\ disk' = r.disk
        /\ lastOp' = Log("cleanup", <<retentionDays, maxEvents>>, r)
        /\ hist' = Forget(hist, cal.events, r.cm.events, Undefined)
        /\ cancelled' = Forget(cancelled, cal.events, r.cm.events, "no")
        /\ UNCHANGED <<now, FeedVars, ListenerVars, OtherVars>>

\* the process restarts: a new CalendarManager on the same file
Restart ==
    /\ cal' = newCalendarManager(cal.filePath, cal.calendarName, disk)
    /\ lastOp' = Log("restart", <<>>, Result(cal, disk, FALSE, FALSE, FALSE, 0))
    /\ hist' = [u \in DOMAIN hist |-> Undefined]
    /\ UNCHANGED <<now, disk, cancelled, FeedVars, ListenerVars, OtherVars>>

\* toICS() is called on the store
Render ==
    /\ lastOp' = Log("render", <<>>, Result(cal, disk, RenderThrows(cal), FALSE, FALSE, 0))
    /\ UNCHANGED <<now, disk, cal, hist, cancelled, FeedVars, ListenerVars, OtherVars>>

\* time passes
Tick(t) ==
    /\ t > now
    /\ now' = t
    /\ lastOp' = Log("tick", <<>>, Result(cal, disk, FALSE, FALSE, FALSE, 0))
    /\ UNCHANGED <<disk, cal, hist, cancelled, FeedVars, ListenerVars, OtherVars>>

----------------------------------------------------------------------------
(* The gateway fires agent:task:complete                                   *)

TaskComplete(event) ==
    LET h == onTaskComplete(cal, disk, now, tcConfig, event)
        touched == {event.id, dailyUid(sourceOf(event), event.completedAt)}
    IN  /\ tcConfig.enabled
        /\ cal' = h.r.cm
        /\ disk' = h.r.disk
        /\ lastOp' = Log("taskComplete", event, h.r)
        /\ delivered' = Append(delivered, [source |-> sourceOf(event),
                                           day |-> isoDay(event.completedAt),
                                           summary |-> event.summary,
                                           call |-> h.call])
        /\ hist' = [u \in DOMAIN hist |-> IF u \in touched THEN Undefined ELSE hist[u]]
        /\ cancelled' = [u \in DOMAIN cancelled |->
                           IF u \in touched /\ cancelled[u] # "no" THEN "overridden"
                           ELSE cancelled[u]]
        /\ UNCHANGED <<now, FeedVars, tcConfig, OtherVars>>

-----------------------------------------------------------------------------
(* LocalCalendarPush (local-push.ts). A script handed to osascript is kept *)
(* as what it was made from: whether it deletes, creates or both (update), *)
(* the calendar, whether the calendar is created first, the title whose    *)
(* events are deleted and the event created. p is the LocalCalendarPush    *)
(* of the FeedManager (null is Undefined) with the scripts run so far.     *)

newLocalCalendarPush(enabled, isDarwin) ==
    [enabled |-> enabled, isDarwin |-> isDarwin, knownCalendars |-> {}]

shouldRun(lp) == lp.enabled /\ lp.isDarwin

calendarName(agentId) == <<"OpenClaw ", "E3", " ">> \o agentId

\* run(script), after ensureCalendarScript when the script creates an event:
\* execFile starts the osascript process at once; it has not exited yet
run(p, op, calName, title, event) ==
    [lp |-> IF op = "delete" THEN p.lp
            ELSE Def([Val(p.lp) EXCEPT !.knownCalendars = @ \cup {calName}]),
     pushed |-> Append(p.pushed,
                       [op |-> op, calendar |-> calName,
                        ensure |-> op # "delete" /\ calName \notin Val(p.lp).knownCalendars,
                        title |-> title, event |-> event, exited |-> FALSE])]

\* LocalCalendarPush.pushEvent: create, unless recurring
pushEvent(p, event) ==
    IF ~shouldRun(Val(p.lp)) \/ ~TruthyStr(event.agent) THEN p
    ELSE IF TruthyStr(event.rrule) THEN p
    ELSE run(p, "create", calendarName(Val(event.agent)), Undefined, Def(event))

\* LocalCalendarPush.updateEvent: delete and recreate
pushUpdateEvent(p, event) ==
    IF ~shouldRun(Val(p.lp)) \/ ~TruthyStr(event.agent) THEN p
    ELSE IF TruthyStr(event.rrule) THEN p
    ELSE run(p, "update", calendarName(Val(event.agent)), event.title, Def(event))

\* LocalCalendarPush.removeEvent
pushRemoveEvent(p, agent, title) ==
    IF ~shouldRun(Val(p.lp)) THEN p
    ELSE run(p, "delete", calendarName(agent), Def(title), Undefined)

\* FeedManager.addEvent after the stores returned r: nothing after an exception
pushAfterAdd(p, r, event) ==
    IF r.error \/ ~IsDef(p.lp) THEN p ELSE pushEvent(p, event)

\* FeedManager.updateEvent after the stores returned r
pushAfterUpdate(p, r, uid) ==
    IF r.error \/ ~IsDef(p.lp) \/ ~IsDef(fmGetEvent(r.fm, uid)) THEN p
    ELSE pushUpdateEvent(p, Val(fmGetEvent(r.fm, uid)))

\* FeedManager.cancelEvent and removeEvent before they touch the stores
pushBeforeRemove(p, fm, uid) ==
    IF ~IsDef(p.lp) \/ ~IsDef(fmGetEvent(fm, uid)) THEN p
    ELSE IF ~TruthyStr(Val(fmGetEvent(fm, uid)).agent) THEN p
    ELSE pushRemoveEvent(p, Val(Val(fmGetEvent(fm, uid)).agent),
                         Val(Val(fmGetEvent(fm, uid)).title))

----------------------------------------------------------------------------
(* Calls on the FeedManager                                                *)

Fm == [combined |-> combined, agentFeeds |-> agentFeeds, feedsConfig |-> feedsConfig]

\* the router and the files become those of the result r
SetRouter(r) ==
    /\ combined' = r.fm.combined
    /\ agentFeeds' = r.fm.agentFeeds
    /\ feedsConfig' = r.fm.feedsConfig
    /\ disk' = r.disk

RouterLog(op, arg, r) == Log(op, arg, Result(<<>>, r.disk, r.error, r.disk # disk, FALSE, 0))

\* the LocalCalendarPush of the router and the scripts it has run
Push == [lp |-> localPush, pushed |-> pushed]

\* a call on the router that left the result r and the side channel as p
RouterStep(op, arg, r, p) ==
    /\ SetRouter(r)
    /\ lastOp' = RouterLog(op, arg, r)
    /\ localPush' = p.lp
    /\ pushed' = p.pushed
    /\ UNCHANGED <<now, cal, hist, cancelled, ListenerVars, writing, input, output>>

\* addEvent: the stores, then the push
RouterAdded(event, r) ==
    RouterStep("routerAdd", event, r, pushAfterAdd(Push, r, event))

RouterAddEvent(event) ==
    /\ RouterAdded(event, fmAddEvent(Fm, disk, now, event))

\* updateEvent: the stores, then the push of the event as it is held
RouterUpdated(uid, updates, r) ==
    RouterStep("routerUpdate", [uid |-> uid, updates |-> updates], r,
               pushAfterUpdate(Push, r, uid))

RouterUpdateEvent(uid, updates) ==
    /\ RouterUpdated(uid, updates, fmUpdateEvent(Fm, disk, now, uid, updates))

\* cancelEvent: the removal from the local calendar, then updateEvent
RouterCancelled(uid, r) ==
    RouterStep("routerCancel", [uid |-> uid, updates |-> CancelUpdates], r,
               pushAfterUpdate(pushBeforeRemove(Push, Fm, uid), r, uid))

RouterCancelEvent(uid) ==
    /\ RouterCancelled(uid, fmCancelEvent(Fm, disk, now, uid))

\* removeEvent: the removal from the local calendar, then the stores
RouterRemoveEvent(uid) ==
    /\ RouterStep("routerRemove", uid, fmRemoveEvent(Fm, disk, now, uid),
                  pushBeforeRemove(Push, Fm, uid))

\* the hourly timer of the plugin calls cleanup on the router
RouterCleanup(retentionDays, maxEvents) ==
    /\ RouterStep("routerCleanup", <<retentionDays, maxEvents>>,
                  fmCleanup(Fm, disk, now, retentionDays, maxEvents), Push)

\* the process restarts: a new LocalCalendarPush and a new FeedManager on
\* the same directory
RouterRestart ==
    \E order \in ListingOrders(disk) :
        RouterStep("routerRestart", <<>>,
                   FmResult(newFeedManager(feedsConfig, disk, order), disk, FALSE),
                   [lp |-> IF IsDef(localPush)
                           THEN Def(newLocalCalendarPush(Val(localPush).enabled,
                                                         Val(localPush).isDarwin))
                           ELSE Undefined,
                    pushed |-> pushed])

----------------------------------------------------------------------------
(* Spec: the life of the events of one store                               *)

MaxSeq == 3

Uid1 == <<"e", "1">>

Uid2 == <<"e", "2">>

Uids == {Uid1, Uid2}

Event(uid, title, start) ==
    [EmptyEvent EXCEPT !.uid = Def(uid), !.title = Def(title), !.start = Def(start)]

\* an event as a caller gives it: bare, or completed with a sequence of its own
LifeEvents ==
    {Event(u, <<"T">>, Day(1)) : u \in Uids}
    \cup {[Event(u, <<"T">>, Day(1)) EXCEPT !.status = Def("COMPLETED"),
                                           !.sequence = Def(1)] : u \in Uids}

\* a partial that also names a sequence, and one that replaces the status
LifeUpdates == {[title |-> Def(<<"N">>), sequence |-> Def(0)],
                [status |-> Def("PLANNED")]}

SeqOf(events, u) ==
    LET e == Val(MapGet(events, u))
    IN  IF IsDef(e.sequence) THEN Val(e.sequence) ELSE 0

SeqBelow(events, u, n) == MapHas(events, u) => SeqOf(events, u) < n

Init ==
    /\ now = Day(10)
    /\ disk = <<>>
    /\ cal = newCalendarManager(TestFile, TestName, <<>>)
    /\ combined = Undefined
    /\ agentFeeds = <<>>
    /\ feedsConfig = [combined |-> FALSE, per_agent |-> FALSE]
    /\ lastOp = NoOp
    /\ hist = [u \in Uids |-> Undefined]
    /\ cancelled = [u \in Uids |-> "no"]
    /\ tcConfig = NoTaskCompletions
    /\ delivered = <<>>
    /\ OtherInit

Next ==
    \/ \E e \in LifeEvents : AddEvent(e)
    \/ \E u \in Uids, p \in LifeUpdates : SeqBelow(cal.events, u, MaxSeq) /\ UpdateEvent(u, p)
    \/ \E u \in Uids : SeqBelow(cal.events, u, MaxSeq) /\ CancelEvent(u)
    \/ \E u \in Uids : RemoveEvent(u)
    \/ Cleanup(2, 5)
    \/ Restart

Spec == Init /\ [][Next]_vars

----------------------------------------------------------------------------
(* Sequence counting                                                       *)

\* C2: a uid that was added to this store with sequence s (unset counts as 0)
\* and has since seen k successful calls of update or cancel, with no add,
\* remove or cleanup of it in between, is stored with sequence s + k
SequenceCounts ==
    \A u \in DOMAIN hist :
        IsDef(hist[u]) =>
            /\ MapHas(cal.events, u)
            /\ SeqOf(cal.events, u) = Val(hist[u]).s + Val(hist[u]).k

TitleOf(events, u) == Val(MapGet(events, u)).title

\* an event added with sequence 1 was updated by the partial that names
\* sequence 0 and was cancelled
SequenceCountsWitness ==
    \E u \in DOMAIN hist :
        /\ IsDef(hist[u])
        /\ Val(hist[u]).s = 1
        /\ Val(hist[u]).k = 2
        /\ TitleOf(cal.events, u) = Def(<<"N">>)
        /\ u \in DOMAIN cancelled /\ cancelled[u] = "yes"

\* C3: while a uid stays in the store, no step of add, update, cancel or
\* reload makes its sequence smaller
SequenceNeverDecreases ==
    [][\A u \in Uids :
          (MapHas(cal.events, u) /\ MapHas(cal'.events, u)) =>
              SeqOf(cal'.events, u) >= SeqOf(cal.events, u)]_vars

----------------------------------------------------------------------------
(* Cancellation visibility                                                 *)

\* the physical lines of a document
DocLines(doc) == splitLines(doc)

\* the document has a VEVENT block with the UID line of uid and the line
\* STATUS:CANCELLED
DocHasCancelledBlock(doc, uid) ==
    LET lines == DocLines(doc)
        Inside(b, e) == (b + 1)..(e - 1)
    IN  \E b \in 1..Len(lines) :
            /\ lines[b] = <<"BEGIN", ":", "VEVENT">>
            /\ \E e \in (b + 1)..Len(lines) :
                  /\ lines[e] = <<"END", ":", "VEVENT">>
                  /\ \A m \in Inside(b, e) : lines[m] # <<"END", ":", "VEVENT">>
                  /\ \E m \in Inside(b, e) : lines[m] = <<"UID", ":">> \o uid \o <<"@clawcal">>
                  /\ \E m \in Inside(b, e) : lines[m] = <<"STATUS", ":", "CANCELLED">>

\* C4 as stated: once cancel(uid) has succeeded, every later rendering has a
\* cancelled block for uid until cleanup or remove deletes the uid
CancelledStaysVisible ==
    \A u \in DOMAIN cancelled :
        cancelled[u] \in {"yes", "overridden"} => DocHasCancelledBlock(toICS(cal, now), u)

\* C4 amended: once cancel(uid) has succeeded, every later rendering has a
\* cancelled block for uid until cleanup or remove deletes the uid or a later
\* add of the uid or update carrying a status replaces its status
CancelledVisibleUntilReplaced ==
    \A u \in DOMAIN cancelled :
        cancelled[u] = "yes" => DocHasCancelledBlock(toICS(cal, now), u)

\* a cancelled uid that was then updated and loaded again by a restart
CancelledVisibleWitness ==
    \E u \in DOMAIN cancelled :
        /\ cancelled[u] = "yes"
        /\ MapHas(cal.events, u)
        /\ ~IsDef(hist[u])
        /\ TitleOf(cal.events, u) = Def(<<"N">>)
        /\ SeqOf(cal.events, u) = 2

----------------------------------------------------------------------------
(* SpecCleanup: adds, the clock and cleanup on one store                   *)

RetentionDays == 2

MaxCap == 2

Uid3 == <<"e", "3">>

CleanUids == {Uid1, Uid2, Uid3}

\* starts on day 1, 8 and 9 of a clock that reads day 10 or 11
CleanStarts == {Day(1), Day(8), Day(9)}

CleanEvents ==
    {[Event(u, <<"T">>, st) EXCEPT !.status = Def(status)] :
        u \in CleanUids, st \in CleanStarts, status \in {"PLANNED", "COMPLETED"}}

InitCleanup ==
    /\ now = Day(10)
    /\ disk = <<>>
    /\ cal = newCalendarManager(TestFile, TestName, <<>>)
    /\ combined = Undefined
    /\ agentFeeds = <<>>
    /\ feedsConfig = [combined |-> FALSE, per_agent |-> FALSE]
    /\ lastOp = [NoOp EXCEPT !.log = TRUE]
    /\ hist = <<>>
    /\ cancelled = <<>>
    /\ tcConfig = NoTaskCompletions
    /\ delivered = <<>>
    /\ OtherInit

NextCleanup ==
    \/ \E e \in CleanEvents : AddEvent(e)
    \/ \E m \in 1..MaxCap : Cleanup(RetentionDays, m)
    \/ Tick(Day(11))

SpecCleanup == InitCleanup /\ [][NextCleanup]_vars

\* the step is a call of cleanup
CleanupStep == lastOp'.op = "cleanup"

Entries(events) == {events[i] : i \in 1..Len(events)}

HasStatus(entry, status) == entry.value.status = Def(status)

StartOf(entry) == Val(entry.value.start)

\* the start lies more than retentionDays before the clock
TooOld(entry, retentionDays) == StartOf(entry) < now - retentionDays * MsPerDay

Completed(events) == {e \in Entries(events) : HasStatus(e, "COMPLETED")}

\* C8: a call of cleanup leaves in the store, as it was, every event whose
\* status at the time of the call is not COMPLETED
CleanupKeepsNonCompleted ==
    [][CleanupStep =>
         \A e \in Entries(cal.events) :
             ~HasStatus(e, "COMPLETED") => MapGet(cal'.events, e.key) = Def(e.value)]_vars

\* cleanup with cap 1 removed something and left a store of two or more
\* events, one of them planned and older than the retention
CleanupKeepsNonCompletedWitness ==
    /\ lastOp.op = "cleanup"
    /\ lastOp.arg[2] = 1
    /\ lastOp.removed > 0
    /\ Len(cal.events) >= 2
    /\ \E e \in Entries(cal.events) :
          HasStatus(e, "PLANNED") /\ TooOld(e, lastOp.arg[1])

\* C9: a call of cleanup removes a completed event that is inside the
\* retention window only when the store holds more than maxEvents completed
\* events; then none of the removed ones starts after a completed one that
\* stays, and exactly maxEvents completed events remain
CleanupCapCountsCompleted ==
    [][CleanupStep =>
         LET gone == {e \in Completed(cal.events) :
                        /\ ~TooOld(e, lastOp'.arg[1])
                        /\ ~MapHas(cal'.events, e.key)}
         IN  gone # {} =>
               /\ Cardinality(Completed(cal.events)) > lastOp'.arg[2]
               /\ Cardinality(Completed(cal'.events)) = lastOp'.arg[2]
               /\ \A g \in gone, k \in Completed(cal'.events) :
                     StartOf(g) <= StartOf(k)]_vars

\* C10: a call of cleanup removes every COMPLETED event whose start lies more
\* than retentionDays before the clock and adds none, returns the number of
\* events that left the store, leaves the file alone when that number is 0
\* and writes the store to it otherwise
CleanupRemovesExpired ==
    [][CleanupStep =>
         /\ \A e \in Completed(cal.events) :
               TooOld(e, lastOp'.arg[1]) => ~MapHas(cal'.events, e.key)
         /\ MapKeys(cal'.events) \subseteq MapKeys(cal.events)
         /\ lastOp'.removed = Len(cal.events) - Len(cal'.events)
         /\ lastOp'.removed = 0 => disk' = disk
         /\ lastOp'.removed > 0 =>
               /\ cal.filePath \in DOMAIN disk'
               /\ disk'[cal.filePath] = File(cal', now)]_vars

\* on day 11 cleanup removed two events and wrote the file; a completed
\* event that starts exactly at the cutoff stays
CleanupRemovesExpiredWitness ==
    /\ lastOp.op = "cleanup"
    /\ lastOp.removed = 2
    /\ lastOp.wrote
    /\ now = Day(11)
    /\ disk[cal.filePath] = File(cal, now)
    /\ \E e \in Completed(cal.events) : StartOf(e) = now - lastOp.arg[1] * MsPerDay

----------------------------------------------------------------------------
(* SpecFeeds: a FeedManager, and a store of its own beside it              *)

AgentA == <<"d", "e", "v">>

AgentB == <<"q", "a", " ", "1">>

FeedConfigs == {[combined |-> TRUE, per_agent |-> TRUE],
                [combined |-> TRUE, per_agent |-> FALSE],
                [combined |-> FALSE, per_agent |-> TRUE]}

\* the first uid with no agent or with one of two, the second with one agent
FeedEvents ==
    {[Event(Uid1, <<"T">>, Day(1)) EXCEPT !.agent = a] :
        a \in {Undefined, Def(AgentA), Def(AgentB)}}
    \cup {[Event(Uid2, <<"T">>, Day(1)) EXCEPT !.agent = Def(AgentA)]}

MaxFeedSeq == 2

FeedUpdates == {[title |-> Def(<<"N">>)]}

Stores == (IF IsDef(combined) THEN {Val(combined)} ELSE {})
          \cup {agentFeeds[i].value : i \in 1..Len(agentFeeds)}

Holders(uid) == {cm \in Stores : MapHas(cm.events, uid)}

\* every copy of uid has a sequence below n
CopiesBelow(uid, n) == \A cm \in Holders(uid) : SeqOf(cm.events, uid) < n

InitFeeds ==
    /\ now = Day(10)
    /\ disk = <<>>
    /\ cal = newCalendarManager(TestFile, TestName, <<>>)
    /\ feedsConfig \in FeedConfigs
    /\ combined = newFeedManager(feedsConfig, <<>>, <<>>).combined
    /\ agentFeeds = newFeedManager(feedsConfig, <<>>, <<>>).agentFeeds
    /\ lastOp = [NoOp EXCEPT !.log = TRUE]
    /\ hist = <<>>
    /\ cancelled = <<>>
    /\ tcConfig = NoTaskCompletions
    /\ delivered = <<>>
    /\ OtherInit

NextFeeds ==
    \/ \E e \in FeedEvents : RouterAddEvent(e)
    \/ \E u \in Uids, p \in FeedUpdates : CopiesBelow(u, MaxFeedSeq) /\ RouterUpdateEvent(u, p)
    \/ \E u \in Uids : CopiesBelow(u, MaxFeedSeq) /\ RouterCancelEvent(u)
    \/ \E u \in Uids : RouterRemoveEvent(u)

SpecFeeds == InitFeeds /\ [][NextFeeds]_vars

\* C6: with the combined feed and the per-agent feeds enabled, after
\* addEvent(e) of the router for an event with an agent, the combined store
\* and the store of that agent hold e.uid with the same field values
FanOutConsistent ==
    (/\ lastOp.op = "routerAdd"
     /\ feedsConfig.combined /\ feedsConfig.per_agent
     /\ TruthyStr(lastOp.arg.agent)) =>
        LET uid == Val(lastOp.arg.uid)
            agentId == Val(lastOp.arg.agent)
        IN  /\ IsDef(combined)
            /\ MapHas(agentFeeds, agentId)
            /\ IsDef(getEvent(Val(combined), uid))
            /\ getEvent(Val(MapGet(agentFeeds, agentId)), uid) = getEvent(Val(combined), uid)

\* an event was added for the second agent while the store of the first
\* agent holds an updated copy of the same uid and the combined store holds
\* two events
FanOutConsistentWitness ==
    /\ lastOp.op = "routerAdd"
    /\ feedsConfig.combined /\ feedsConfig.per_agent
    /\ lastOp.arg.agent = Def(AgentB)
    /\ Len(Val(combined).events) = 2
    /\ MapHas(agentFeeds, AgentA)
    /\ MapHas(Val(MapGet(agentFeeds, AgentA)).events, Val(lastOp.arg.uid))
    /\ SeqOf(Val(MapGet(agentFeeds, AgentA)).events, Val(lastOp.arg.uid)) >= 1

\* the copy of uid in the store after carries the fields of the partial and
\* the sequence of the copy before plus one
CopyUpdated(before, after, uid, updates) ==
    /\ MapHas(after.events, uid)
    /\ \A f \in DOMAIN updates : Val(MapGet(after.events, uid))[f] = updates[f]
    /\ SeqOf(after.events, uid) = SeqOf(before.events, uid) + 1

\* C7: after updateEvent(uid, partial) or cancelEvent(uid) of the router, the
\* copy of the combined store and the copy of every per-agent store that
\* held uid carry the new values, and each copy's sequence has grown by 1
RouterUpdateFansOut ==
    [][lastOp'.op \in {"routerUpdate", "routerCancel"} =>
         LET uid == lastOp'.arg.uid
             updates == lastOp'.arg.updates
         IN  /\ (IsDef(combined) /\ MapHas(Val(combined).events, uid)) =>
                   /\ IsDef(combined')
                   /\ CopyUpdated(Val(combined), Val(combined'), uid, updates)
             /\ Len(agentFeeds') = Len(agentFeeds)
             /\ \A i \in 1..Len(agentFeeds) :
                   /\ agentFeeds'[i].key = agentFeeds[i].key
                   /\ MapHas(agentFeeds[i].value.events, uid) =>
                         CopyUpdated(agentFeeds[i].value, agentFeeds'[i].value,
                                     uid, updates)]_vars

\* a uid held by the combined store and by the stores of two agents was
\* cancelled: all three copies are cancelled, with sequences that differ
RouterUpdateFansOutWitness ==
    /\ lastOp.op = "routerCancel"
    /\ IsDef(combined)
    /\ Len(agentFeeds) = 2
    /\ \A cm \in Stores :
          /\ MapHas(cm.events, lastOp.arg.uid)
          /\ Val(MapGet(cm.events, lastOp.arg.uid)).status = Def("CANCELLED")
    /\ \E cm \in Stores :
          SeqOf(cm.events, lastOp.arg.uid) # SeqOf(Val(combined).events, lastOp.arg.uid)

----------------------------------------------------------------------------
(* SpecUnknown: calls for uids that are and are not held, on a store and   *)
(* on a FeedManager, while time passes                                     *)

MaxUnknownSeq == 1

NextUnknown ==
    \/ AddEvent(Event(Uid1, <<"T">>, Day(1)))
    \/ \E u \in Uids, p \in LifeUpdates :
          SeqBelow(cal.events, u, MaxUnknownSeq) /\ UpdateEvent(u, p)
    \/ \E u \in Uids : SeqBelow(cal.events, u, MaxUnknownSeq) /\ CancelEvent(u)
    \/ RouterAddEvent([Event(Uid1, <<"T">>, Day(1)) EXCEPT !.agent = Def(AgentA)])
    \/ \E u \in Uids, p \in LifeUpdates :
          CopiesBelow(u, MaxUnknownSeq) /\ RouterUpdateEvent(u, p)
    \/ \E u \in Uids : CopiesBelow(u, MaxUnknownSeq) /\ RouterCancelEvent(u)
    \/ Tick(Day(11))

SpecUnknown == InitFeeds /\ [][NextUnknown]_vars

\* C5: update and cancel on a store that does not hold the uid throw nothing
\* and leave the store and every file as they are; updateEvent and
\* cancelEvent of the router for a uid that none of its stores holds throw
\* nothing and leave every store and every file as they are
UnknownUidIsNoOp ==
    [][/\ (lastOp'.op \in {"update", "cancel"} /\ ~MapHas(cal.events, lastOp'.arg)) =>
            (~lastOp'.error /\ cal' = cal /\ disk' = disk)
       /\ (lastOp'.op \in {"routerUpdate", "routerCancel"}
              /\ Holders(lastOp'.arg.uid) = {}) =>
            (~lastOp'.error /\ combined' = combined /\ agentFeeds' = agentFeeds
                /\ disk' = disk)]_vars

\* on day 11 the router was asked to cancel a uid that none of its stores
\* holds; its stores hold another uid in files written on day 10, and so
\* does the store beside it
UnknownUidIsNoOpWitness ==
    /\ lastOp.op = "routerCancel"
    /\ Holders(lastOp.arg.uid) = {}
    /\ now = Day(11)
    /\ IsDef(combined) /\ Len(Val(combined).events) > 0
    /\ Len(agentFeeds) > 0
    /\ MapHas(cal.events, Uid1)
    /\ \A f \in DOMAIN disk : disk[f].clock = Day(10)

----------------------------------------------------------------------------
(* SpecCodec: events of many shapes are added, rendered and loaded again   *)

CodecBase == [Event(Uid1, <<"T">>, Day(1)) EXCEPT !.status = Def("PLANNED")]

CodecTitles == {<<"a", ",", "b", ";", "c">>, <<"\\", "n">>, <<"a", "\\", "b">>}

\* 01:02:03 on day 1, and 4 ms later
CodecStarts == {Day(1) + 3723000, Day(1) + 3723004}

CodecAlerts == {<< [minutes |-> Def(5), description |-> Undefined] >>,
                << [minutes |-> Def(10), description |-> Def(<<"d">>)],
                   [minutes |-> Def(0), description |-> Def(<<"e">>)] >>}

\* the base event with one of its fields changed
CodecShapes ==
    {CodecBase}
    \cup {[CodecBase EXCEPT !.title = Def(t)] : t \in CodecTitles}
    \cup {[CodecBase EXCEPT !.start = Def(st)] : st \in CodecStarts}
    \cup {[CodecBase EXCEPT !.allDay = Def(b)] : b \in BOOLEAN}
    \cup {[CodecBase EXCEPT !.status = st] :
            st \in {Undefined} \cup {Def(x) : x \in EventStatus}}
    \cup {[CodecBase EXCEPT !.sequence = Def(q)] : q \in {0, 2}}
    \cup {[CodecBase EXCEPT !.alerts = Def(al)] : al \in CodecAlerts}
    \cup {[CodecBase EXCEPT !.rrule = Def(<<"FREQ=DAILY", ";", "COUNT=3">>)],
          [CodecBase EXCEPT !.url = Def(<<"https", ":", "//example.com/x">>)],
          [CodecBase EXCEPT !.end = Def(Day(2)), !.description = Def(<<"d", "\n", "e">>)],
          [CodecBase EXCEPT !.duration = Def(30), !.category = Def(<<"c">>),
                            !.agent = Def(AgentA), !.project = Def(<<"p">>)]}

CodecEvents == {[e EXCEPT !.uid = Def(u)] : e \in CodecShapes, u \in Uids}

NextCodec ==
    \/ \E e \in CodecEvents : AddEvent(e)
    \/ Restart

SpecCodec == Init /\ [][NextCodec]_vars

RoundTripFields == {"uid", "title", "start", "allDay", "status", "sequence",
                    "rrule", "alerts", "url"}

\* C1: the document of the store, parsed by a fresh store, gives for every
\* stored event an event with the same uid, title, start, allDay, status,
\* sequence, rrule, alerts and url
RoundTrip ==
    LET restored == parseICS(<<>>, toICS(cal, now))
    IN  \A i \in 1..Len(cal.events) :
            /\ MapHas(restored, cal.events[i].key)
            /\ \A f \in RoundTripFields :
                  Val(MapGet(restored, cal.events[i].key))[f] = cal.events[i].value[f]

----------------------------------------------------------------------------
(* SpecAgg: task completions arrive at a listener with the daily aggregate *)

MaxDelivered == 3

Task(id, summary, completedAt, agentId) ==
    [id |-> id, summary |-> summary, description |-> Undefined,
     completedAt |-> completedAt, agentId |-> agentId, workspace |-> Undefined]

TaskId1 == <<"t", "1">>

TaskId2 == <<"t", "2">>

\* 15:00 and 16:00 on day 1, 10:00 on day 2
Hour(n) == n * 3600000

\* summaries of one line, empty, and of two lines the second of which
\* looks like a bullet
AggTasks ==
    {Task(TaskId1, <<"a">>, Day(1) + Hour(15), Def(AgentA)),
     Task(TaskId2, <<"b">>, Day(1) + Hour(16), Def(AgentA)),
     Task(TaskId2, <<>>, Day(1) + Hour(16), Def(AgentA)),
     Task(TaskId2, <<"a", "\n", "-", " ", "b">>, Day(1) + Hour(16), Def(AgentA)),
     Task(TaskId1, <<"a">>, Day(2) + Hour(10), Def(AgentA)),
     Task(TaskId1, <<"a">>, Day(1) + Hour(15), Def(AgentB)),
     Task(TaskId1, <<"a">>, Day(1) + Hour(15), Undefined)}

\* the alert defaults of the tests: no alert for a completed task
NoAlertDefaults == [alerts |-> Def([task_completions |-> <<>>])]

AggConfigs ==
    {[enabled |-> TRUE, mode |-> m, aggregate |-> "daily", defaults |-> NoAlertDefaults] :
        m \in {"off", "all_day", "timed"}}

InitAgg ==
    /\ now = Day(10)
    /\ disk = <<>>
    /\ cal = newCalendarManager(TestFile, TestName, <<>>)
    /\ combined = Undefined
    /\ agentFeeds = <<>>
    /\ feedsConfig = [combined |-> FALSE, per_agent |-> FALSE]
    /\ lastOp = [NoOp EXCEPT !.log = TRUE]
    /\ hist = <<>>
    /\ cancelled = <<>>
    /\ tcConfig \in AggConfigs
    /\ delivered = <<>>
    /\ OtherInit

NextAgg ==
    \/ \E t \in AggTasks : Len(delivered) < MaxDelivered /\ TaskComplete(t)
    \/ Restart

SpecAgg == InitAgg /\ [][NextAgg]_vars

\* the (source, day) pairs that got a completion, and the places in
\* delivered of the completions of one pair
AggKeys == {<<delivered[i].source, delivered[i].day>> : i \in 1..Len(delivered)}

AggPlaces(key) ==
    SelectSeq(Indices(delivered),
              LAMBDA i : <<delivered[i].source, delivered[i].day>> = key)

AggKeyUid(key) ==
    <<"d", "a", "i", "l", "y", "-", "t", "a", "s", "k", "s", "-">> \o key[1]
       \o <<"-">> \o key[2]

IsAggUid(uid) == MatchAt(uid, 1, <<"d", "a", "i", "l", "y", "-">>)

    /\ lastOp.op = "restart"

AggTitle(key, k) ==
    <<"S", "h", "i", "p", "p", "e", "d", " ">> \o NatToText(k)
       \o (IF k = 1 THEN <<" ", "t", "a", "s", "k">> ELSE <<" ", "t", "a", "s", "k", "s">>)
       \o <<" ", "-", "-", " ">> \o key[1]

AggDescription(uid) ==
    LET d == Val(MapGet(cal.events, uid)).description
    IN  IF IsDef(d) THEN splitNewline(Val(d)) ELSE <<>>

\* C12: after k completions of one source on one day the title of the
\* aggregate states k and its description is k bullet lines
DailyAggregateContent ==
    \A key \in AggKeys :
        LET k == Len(AggPlaces(key))
            lines == AggDescription(AggKeyUid(key))
        IN  /\ Val(MapGet(cal.events, AggKeyUid(key))).title = Def(AggTitle(key, k))
            /\ Len(lines) = k
            /\ \A n \in 1..k : lines[n][1] = "-"

----------------------------------------------------------------------------
(* SpecRollup: buildDailyTaskAggregate on task lists of every length, the  *)
(* event it builds added to the store                                      *)

MaxTasks == 27

RollupSources == {AgentA, AgentB}

\* n tasks of one source, Task 1 .. Task n
RollupTasks(source, n) ==
    [i \in 1..n |-> [source |-> source, day |-> isoDay(Day(10)),
                     summary |-> <<"T", "a", "s", "k", " ">> \o NatToText(i),
                     call |-> "none"]]

InitRollup ==
    /\ now \in {Day(10), Day(10) + Hour(15)}
    /\ disk = <<>>
    /\ cal = newCalendarManager(TestFile, TestName, <<>>)
    /\ combined = Undefined
    /\ agentFeeds = <<>>
    /\ feedsConfig = [combined |-> FALSE, per_agent |-> FALSE]
    /\ lastOp = [NoOp EXCEPT !.log = TRUE]
    /\ hist = <<>>
    /\ cancelled = <<>>
    /\ tcConfig = NoTaskCompletions
    /\ delivered \in {RollupTasks(a, n) : a \in RollupSources, n \in 1..MaxTasks}
    /\ OtherInit

\* the tasks are rolled up at once and the event is added
AddRollup ==
    /\ lastOp.op = "none"
    /\ AddEvent(buildDailyTaskAggregate(delivered[1].source, now,
                    [i \in 1..Len(delivered) |-> delivered[i].summary]))

NextRollup == AddRollup

SpecRollup == InitRollup /\ [][NextRollup]_vars

RollupLines == AggDescription(AggKeyUid(<<delivered[1].source, delivered[1].day>>))

\* C13: the description holds at most 25 bullets; beyond 25 tasks it ends
\* with the line '+ K more', K the count less 25, and the title states the
\* full count; up to 25 tasks every task has its bullet
DescriptionCappedAt25 ==
    lastOp.op = "add" =>
        LET n == Len(delivered)
            lines == RollupLines
            key == <<delivered[1].source, delivered[1].day>>
        IN  /\ Val(MapGet(cal.events, AggKeyUid(key))).title = Def(AggTitle(key, n))
            /\ n <= 25 => /\ Len(lines) = n
                          /\ \A i \in 1..n : lines[i] = <<"-", " ">> \o delivered[i].summary
            /\ n > 25 => /\ Len(lines) = 26
                         /\ \A i \in 1..25 : lines[i] = <<"-", " ">> \o delivered[i].summary
                         /\ lines[26] = <<"+", " ">> \o NatToText(n - 25)
                                           \o <<" ", "m", "o", "r", "e">>

----------------------------------------------------------------------------
(* SpecEscape: escapeICS and unescapeICS on short texts                    *)

MaxText == 3

EscapeChars == {"\\", ";", ",", "\n", "n", "a"}

\* the texts of at most n characters over the set chars
TextsUpTo(chars, n) == UNION {[1..k -> chars] : k \in 0..n}

\* the state of a function studied on its own: nothing else exists
PureInit ==
    /\ now = Day(10)
    /\ disk = <<>>
    /\ cal = newCalendarManager(TestFile, TestName, <<>>)
    /\ combined = Undefined
    /\ agentFeeds = <<>>
    /\ feedsConfig = [combined |-> FALSE, per_agent |-> FALSE]
    /\ lastOp = NoOp
    /\ hist = <<>>
    /\ cancelled = <<>>
    /\ tcConfig = NoTaskCompletions
    /\ delivered = <<>>
    /\ writing = Undefined
    /\ PushInit
    /\ output = Undefined

PureVars == <<now, disk, cal, FeedVars, lastOp, hist, cancelled, ListenerVars, writing, PushVars>>

InitEscape == PureInit /\ input \in {Def(t) : t \in TextsUpTo(EscapeChars, MaxText)}

\* the text is escaped, then unescaped
EscapeUnescape ==
    /\ output = Undefined
    /\ output' = Def(unescapeICS(escapeICS(Val(input))))
    /\ UNCHANGED <<input, PureVars>>

NextEscape == EscapeUnescape

SpecEscape == InitEscape /\ [][NextEscape]_vars

\* C14: unescapeICS(escapeICS(s)) = s for every text s over backslash,
\* semicolon, comma, newline and letters
EscapeInverse == IsDef(output) => Val(output) = Val(input)

----------------------------------------------------------------------------
(* SpecFold: foldLine on values of every length up to MaxFold              *)

MaxFold == 160

\* values of letters only; with a character of three octets at every
\* fourth place; with a character outside the basic plane (two code units)
\* at every fifth; with spaces, tabs and carriage returns among the letters
FoldValue(kind, n) ==
    [i \in 1..n |->
        CASE kind = "wide" /\ i % 4 = 0 -> "E3"
          [] kind = "pair" /\ i % 5 = 1 /\ i < n -> "HI"
          [] kind = "pair" /\ i % 5 = 2 -> "LO"
          [] kind = "blank" /\ i % 3 = 0 -> " "
          [] kind = "blank" /\ i % 7 = 1 -> "\t"
          [] kind = "blank" /\ i % 5 = 2 -> "\r"
          [] OTHER -> "a"]

FoldKinds == {"ascii", "wide", "pair", "blank"}

FoldPrefixes == {<<"SUMMARY", ":">>, <<"DESCRIPTION", ":">>}

InitFold ==
    /\ PureInit
    /\ input \in {Def([prefix |-> p, value |-> FoldValue(k, n)]) :
                    p \in FoldPrefixes, k \in FoldKinds, n \in 0..MaxFold}

\* the value is folded as render() folds it, written and read again
Fold ==
    /\ output = Undefined
    /\ output' = Def(Utf8RoundTrip(foldLine(Val(input).prefix, Val(input).value)))
    /\ UNCHANGED <<input, PureVars>>

NextFold == Fold

SpecFold == InitFold /\ [][NextFold]_vars

\* C15: unfolding the folded value gives the value back; the first line
\* with its prefix and every continuation line have at most 75 octets, and
\* every continuation line begins with the one space that folding added
FoldInvariant ==
    IsDef(output) =>
        LET lines == splitLines(Val(output))
        IN  /\ unfold(Val(output)) = Val(input).value
            /\ TextOctets(Val(input).prefix \o lines[1]) <= 75
            /\ \A k \in 2..Len(lines) :
                  /\ TextOctets(lines[k]) <= 75
                  /\ lines[k][1] = " "
            /\ Len(Val(output)) = Len(Val(input).value) + 3 * (Len(lines) - 1)

----------------------------------------------------------------------------
(* SpecLong: events with one long field are added to a store               *)

MaxLong == 80

LongLengths == {20, 60, MaxLong}

LongText(n) == [i \in 1..n |-> "a"]

LongBase == Event(Uid1, <<"T">>, Day(1))

\* the base event with one field of n letters
LongEvents ==
    UNION {{[LongBase EXCEPT !.title = Def(LongText(n))],
            [LongBase EXCEPT !.title = Def(LongText(n)),
                             !.alerts = Def(<<[minutes |-> Def(5),
                                               description |-> Undefined]>>)],
            [LongBase EXCEPT !.alerts = Def(<<[minutes |-> Def(5),
                                               description |-> Def(LongText(n))]>>)],
            [LongBase EXCEPT !.description = Def(LongText(n))],
            [LongBase EXCEPT !.uid = Def(LongText(n))],
            [LongBase EXCEPT !.category = Def(LongText(n))],
            [LongBase EXCEPT !.agent = Def(LongText(n))],
            [LongBase EXCEPT !.project = Def(LongText(n))],
            [LongBase EXCEPT !.url = Def(LongText(n))]} : n \in LongLengths}

InitLong ==
    /\ now = Day(10)
    /\ disk = <<>>
    /\ cal \in {newCalendarManager(TestFile, name, <<>>) :
                  name \in {TestName, LongText(60)}}
    /\ combined = Undefined
    /\ agentFeeds = <<>>
    /\ feedsConfig = [combined |-> FALSE, per_agent |-> FALSE]
    /\ lastOp = [NoOp EXCEPT !.log = TRUE]
    /\ hist = <<>>
    /\ cancelled = <<>>
    /\ tcConfig = NoTaskCompletions
    /\ delivered = <<>>
    /\ OtherInit

NextLong ==
    \/ \E e \in LongEvents : Len(cal.events) < 2 /\ AddEvent(e)
    \/ \E n \in LongLengths : RemoveEvent(LongText(n))

SpecLong == InitLong /\ [][NextLong]_vars

\* C16: every physical line of the rendered document has at most 75 octets
LinesAtMost75 ==
    LET lines == splitLines(toICS(cal, now))
    IN  \A k \in 1..Len(lines) : TextOctets(lines[k]) <= 75

----------------------------------------------------------------------------
(* SpecLoad: a store is constructed on a document that others wrote        *)

MaxLoadSeq == 1

\* the lines of an event block: whole, without its UID, without its DTSTART,
\* or with a DTSTART that is no date
BlockKinds == {"whole", "noUid", "noStart", "badStart"}

BlockLines(kind, uid) ==
    << <<"BEGIN", ":", "VEVENT">> >>
    \o Opt1(kind # "noUid", Prop("UID", uid \o <<"@clawcal">>))
    \o << Prop("DTSTAMP", formatICSDate(Def(Day(9)))) >>
    \o (CASE kind = "noStart" -> <<>>
          [] kind = "badStart" -> <<Prop("DTSTART", <<"s", "o", "o", "n">>)>>
          [] OTHER -> <<Prop("DTSTART", formatICSDate(Def(Day(1))))>>)
    \o << Prop("SUMMARY", <<"T">>),
          Prop("STATUS", <<"TENTATIVE">>),
          <<"END", ":", "VEVENT">> >>

\* a document of one or two blocks; kinds[i] is the kind of the block of
\* the i-th uid
LoadUids == <<Uid1, Uid2>>

LoadDocument(kinds) ==
    JoinCRLF(<< <<"BEGIN", ":", "VCALENDAR">>, <<"VERSION", ":", "2.0">> >>
             \o Concat([i \in 1..Len(kinds) |-> BlockLines(kinds[i], LoadUids[i])])
             \o << <<"END", ":", "VCALENDAR">> >>)

LoadInputs == UNION {[1..n -> BlockKinds] : n \in 1..2}

InitLoad ==
    /\ now = Day(10)
    /\ input \in {Def(k) : k \in LoadInputs}
    /\ disk = (TestFile :> [raw |-> LoadDocument(Val(input))])
    /\ cal = newCalendarManager(TestFile, TestName, disk)
    /\ combined = Undefined
    /\ agentFeeds = <<>>
    /\ feedsConfig = [combined |-> FALSE, per_agent |-> FALSE]
    /\ lastOp = [NoOp EXCEPT !.log = TRUE]
    /\ hist = <<>>
    /\ cancelled = <<>>
    /\ tcConfig = NoTaskCompletions
    /\ delivered = <<>>
    /\ writing = Undefined
    /\ PushInit
    /\ output = Undefined

NextLoad ==
    \/ Render
    \/ AddEvent(Event(Uid3, <<"T">>, Day(1)))
    \/ \E u \in {Uid1, Uid2} :
          SeqBelow(cal.events, u, MaxLoadSeq) /\ UpdateEvent(u, [title |-> Def(<<"N">>)])
    \/ Cleanup(2, 5)

SpecLoad == InitLoad /\ [][NextLoad]_vars

\* the uids of the blocks of the document that have a UID and a DTSTART
\* that is a date
WholeUids == {LoadUids[i] : i \in {k \in 1..Len(Val(input)) : Val(input)[k] = "whole"}}

\* C17: the store constructed on the document holds the whole blocks and no
\* other, and no later render, add, update or cleanup throws
BestEffortLoad ==
    /\ MapKeys(cal.events) \ {Uid3} = WholeUids
    /\ ~lastOp.error

----------------------------------------------------------------------------
(* SpecWrite: writeFileSync seen from outside the process. It opens the    *)
(* file of the store with truncation, writes the text and closes it; a     *)
(* reader of the file or a crash can come after any part of the text.      *)

MaxWriteSeq == 2

\* how much of the text is in the file when it is looked at: nothing, or
\* the first half
PartsWritten(text) == {0, Len(text) \div 2}

\* a mutating call of result r has set the Map and is inside writeFileSync
WriteBegins(op, arg, r) ==
    /\ ~IsDef(writing)
    /\ r.wrote
    /\ cal' = r.cm
    /\ writing' = Def(r.disk[cal.filePath])
    /\ \E n \in PartsWritten(Content(r.disk[cal.filePath])) :
          disk' = (cal.filePath :> [raw |-> SubSeq(Content(r.disk[cal.filePath]), 1, n)])
                    @@ disk
    /\ lastOp' = Log(op, arg, r)
    /\ UNCHANGED <<now, hist, cancelled, FeedVars, ListenerVars, input, output, PushVars>>

\* writeFileSync returns: the whole text is in the file
WriteEnds ==
    /\ IsDef(writing)
    /\ disk' = (cal.filePath :> Val(writing)) @@ disk
    /\ writing' = Undefined
    /\ lastOp' = Log("written", <<>>, Result(cal, disk', FALSE, TRUE, FALSE, 0))
    /\ UNCHANGED <<now, cal, hist, cancelled, FeedVars, ListenerVars, input, output, PushVars>>

\* the process dies inside writeFileSync and is started again
Crash ==
    /\ IsDef(writing)
    /\ writing' = Undefined
    /\ cal' = newCalendarManager(cal.filePath, cal.calendarName, disk)
    /\ lastOp' = Log("crash", <<>>, Result(cal', disk, FALSE, FALSE, FALSE, 0))
    /\ UNCHANGED <<now, disk, hist, cancelled, FeedVars, ListenerVars, input, output, PushVars>>

InitWrite ==
    /\ now = Day(10)
    /\ disk = <<>>
    /\ cal = newCalendarManager(TestFile, TestName, <<>>)
    /\ combined = Undefined
    /\ agentFeeds = <<>>
    /\ feedsConfig = [combined |-> FALSE, per_agent |-> FALSE]
    /\ lastOp = [NoOp EXCEPT !.log = TRUE]
    /\ hist = <<>>
    /\ cancelled = <<>>
    /\ tcConfig = NoTaskCompletions
    /\ delivered = <<>>
    /\ OtherInit

NextWrite ==
    \/ \E e \in LifeEvents :
          WriteBegins("add", Val(e.uid), addEvent(cal, disk, now, e))
    \/ \E u \in Uids :
          /\ SeqBelow(cal.events, u, MaxWriteSeq)
          /\ WriteBegins("cancel", u, cancelEvent(cal, disk, now, u))
    \/ \E u \in Uids : WriteBegins("remove", u, removeEvent(cal, disk, now, u))
    \/ WriteEnds
    \/ Crash

SpecWrite == InitWrite /\ [][NextWrite]_vars

\* the text is a whole document
IsDocument(text) ==
    /\ Len(text) >= 8
    /\ SubSeq(text, 1, 3) = <<"BEGIN", ":", "VCALENDAR">>
    /\ SubSeq(text, Len(text) - 4, Len(text)) = <<"END", ":", "VCALENDAR", "\r", "\n">>

\* C18: whenever the file of the store is looked at, by a reader or by the
\* store that starts after a crash, it holds a whole document
NoPartialWrite == \A f \in DOMAIN disk : IsDocument(Content(disk[f]))

----------------------------------------------------------------------------
(* SpecDiscovery: a router with per-agent feeds is used and restarted      *)

DiscoveryConfigs == {c \in FeedConfigs : c.per_agent}

InitDiscovery ==
    /\ now = Day(10)
    /\ disk = <<>>
    /\ cal = newCalendarManager(TestFile, TestName, <<>>)
    /\ feedsConfig \in DiscoveryConfigs
    /\ combined = newFeedManager(feedsConfig, <<>>, <<>>).combined
    /\ agentFeeds = <<>>
    /\ lastOp = [NoOp EXCEPT !.log = TRUE]
    /\ hist = <<>>
    /\ cancelled = <<>>
    /\ tcConfig = NoTaskCompletions
    /\ delivered = <<>>
    /\ OtherInit

\* one event of an agent whose id is its file name, one of an agent whose
\* id has a space
DiscoveryEvents ==
    {[Event(Uid1, <<"T">>, Day(1)) EXCEPT !.agent = Def(AgentB)],
     [Event(Uid2, <<"T">>, Day(1)) EXCEPT !.agent = Def(AgentA)]}

NextDiscovery ==
    \/ \E e \in DiscoveryEvents : RouterAddEvent(e)
    \/ \E u \in Uids : RouterRemoveEvent(u)
    \/ RouterRestart

SpecDiscovery == InitDiscovery /\ [][NextDiscovery]_vars

\* the agent ids before the restart whose store holds an event
SourcesWithEvents ==
    {agentFeeds[i].key : i \in {k \in 1..Len(agentFeeds) : Len(agentFeeds[k].value.events) > 0}}

\* C19: the router constructed by a restart knows every agent id whose
\* store held an event, under the same id and with the same uids
DiscoveryOnRestart ==
    [][lastOp'.op = "routerRestart" =>
         \A id \in SourcesWithEvents :
            /\ MapHas(agentFeeds', id)
            /\ MapKeys(Val(MapGet(agentFeeds', id)).events)
                 = MapKeys(Val(MapGet(agentFeeds, id)).events)]_vars


-----------------------------------------------------------------------------
(* SpecNaming: a router with per-agent feeds gets events of one agent,     *)
(* whose id is any short text of letters, separators, dots, blanks and     *)
(* code units outside ASCII, and is restarted                              *)

MaxName == 2

NameChars == {"a", "7", "_", "-", "/", ".", " ", "\\", "E3", "HI"}

\* '../a'
DotDotId == <<".", ".", "/", "a">>

NameIds == (TextsUpTo(NameChars, MaxName) \ {<<>>}) \cup {DotDotId}

InitNaming ==
    /\ now = Day(10)
    /\ disk = <<>>
    /\ cal = newCalendarManager(TestFile, TestName, <<>>)
    /\ feedsConfig \in DiscoveryConfigs
    /\ combined = newFeedManager(feedsConfig, <<>>, <<>>).combined
    /\ agentFeeds = <<>>
    /\ lastOp = [NoOp EXCEPT !.log = TRUE]
    /\ hist = <<>>
    /\ cancelled = <<>>
    /\ tcConfig = NoTaskCompletions
    /\ delivered = <<>>
    /\ writing = Undefined
    /\ PushInit
    /\ input \in NameIds
    /\ output = Undefined

NextNaming ==
    \/ RouterAddEvent([Event(Uid1, <<"T">>, Day(1)) EXCEPT !.agent = Def(input)])
    \/ RouterRemoveEvent(Uid1)
    \/ RouterRestart

SpecNaming == InitNaming /\ [][NextNaming]_vars

\* name is id with every character outside [A-Za-z0-9_-] replaced by '-',
\* followed by the extension
IsBackingName(name, id) ==
    /\ Len(name) = Len(id) + 1
    /\ name[Len(name)] = ".ics"
    /\ \A k \in 1..Len(id) :
          /\ name[k] \in SafeChars
          /\ name[k] = IF id[k] \in SafeChars THEN id[k] ELSE "-"

    /\ join(Directory, <<"-", "-", "-", "a", ".ics">>) \in DOMAIN disk

-----------------------------------------------------------------------------
(* SpecReserved: a router with per-agent feeds gets events of agents whose *)
(* ids are the names of the documents the directory reserves               *)

AllAgentsId == AgentIdOf(CombinedFile)

AgentCalendarId == AgentIdOf(LegacyFile)

ReservedIds == {AgentA, AllAgentsId, AgentCalendarId}

\* the first uid with any of the ids, the second with the id of no document
ReservedEvents ==
    {[Event(Uid1, <<"T">>, Day(1)) EXCEPT !.agent = Def(a)] : a \in ReservedIds}
    \cup {[Event(Uid2, <<"T">>, Day(1)) EXCEPT !.agent = Def(AgentA)]}

InitReserved ==
    /\ now = Day(10)
    /\ disk = <<>>
    /\ cal = newCalendarManager(TestFile, TestName, <<>>)
    /\ feedsConfig \in DiscoveryConfigs
    /\ combined = newFeedManager(feedsConfig, <<>>, <<>>).combined
    /\ agentFeeds = <<>>
    /\ lastOp = [NoOp EXCEPT !.log = TRUE]
    /\ hist = <<>>
    /\ cancelled = <<>>
    /\ tcConfig = NoTaskCompletions
    /\ delivered = <<>>
    /\ OtherInit

NextReserved ==
    \/ \E e \in ReservedEvents : RouterAddEvent(e)
    \/ \E u \in {Uid1, Uid2} : RouterRemoveEvent(u)
    \/ RouterRestart

SpecReserved == InitReserved /\ [][NextReserved]_vars

\* C21: no per-agent store has the combined document or the legacy
\* document as its file
NoReservedName ==
    \A i \in DOMAIN agentFeeds :
        Tail(agentFeeds[i].value.filePath) \notin {CombinedFile, LegacyFile}

-----------------------------------------------------------------------------
(* SpecNoAgent: a router gets events with an agent, without one and with   *)
(* the empty agent, and is restarted                                       *)

NoAgentEvents ==
    {[Event(Uid1, <<"T">>, Day(1)) EXCEPT !.agent = a] :
        a \in {Undefined, Def(<<>>), Def(AgentA)}}
    \cup {[Event(Uid2, t, Day(1)) EXCEPT !.agent = Undefined] : t \in {<<"T">>, <<"U">>}}

NextNoAgent ==
    \/ \E e \in NoAgentEvents : RouterAddEvent(e)
    \/ \E u \in Uids : RouterRemoveEvent(u)
    \/ RouterRestart
    \/ Tick(now + MsPerDay) /\ now < Day(11)

SpecNoAgent == InitFeeds /\ [][NextNoAgent]_vars

    /\ IsDef(getEvent(Val(combined), Uid2))

-----------------------------------------------------------------------------
(* SpecTitle: one store gets events and updates whose titles are short     *)
(* texts of letters, backslashes, blanks and control characters, and is    *)
(* restarted on the document it wrote                                      *)

\* a new store on no file, its calls logged
InitStore ==
    /\ now = Day(10)
    /\ disk = <<>>
    /\ cal = newCalendarManager(TestFile, TestName, <<>>)
    /\ combined = Undefined
    /\ agentFeeds = <<>>
    /\ feedsConfig = [combined |-> FALSE, per_agent |-> FALSE]
    /\ lastOp = [NoOp EXCEPT !.log = TRUE]
    /\ hist = <<>>
    /\ cancelled = <<>>
    /\ tcConfig = NoTaskCompletions
    /\ delivered = <<>>
    /\ OtherInit

MaxTitle == 2

MaxTitleSeq == 2

TitleChars == {"a", "n", "\\", " ", "\n", "\r", "NUL", "LS"}

Titles == TextsUpTo(TitleChars, MaxTitle)

NextTitle ==
    \/ \E t \in Titles : AddEvent(Event(Uid1, t, Day(1)))
    \/ \E t \in Titles : SeqBelow(cal.events, Uid1, MaxTitleSeq) /\ UpdateEvent(Uid1, [title |-> Def(t)])
    \/ Restart

SpecTitle == InitStore /\ [][NextTitle]_vars

\* C23: no title held by the store has a control character or a newline
TitlesClean ==
    \A i \in DOMAIN cal.events :
        \A k \in DOMAIN Val(cal.events[i].value.title) :
            Val(cal.events[i].value.title)[k] \notin ControlAll

-----------------------------------------------------------------------------
(* SpecDescription: one store gets events and updates whose descriptions   *)
(* are short texts of letters, line breaks and control characters          *)

MaxDescription == 2

MaxDescriptionSeq == 1

DescriptionChars == {"a", "\n", "\r", "NUL", "LS"}

\* every short text, and every character between two letters
Descriptions ==
    TextsUpTo(DescriptionChars, MaxDescription)
    \cup {<<"a", c, "a">> : c \in DescriptionChars}

NextDescription ==
    \/ \E u \in Uids, t \in Descriptions :
          AddEvent([Event(u, <<"T">>, Day(1)) EXCEPT !.description = Def(t)])
    \/ \E u \in Uids, t \in Descriptions :
          /\ SeqBelow(cal.events, u, MaxDescriptionSeq)
          /\ UpdateEvent(u, [description |-> Def(t)])
    \/ \E u \in Uids : RemoveEvent(u)

SpecDescription == InitStore /\ [][NextDescription]_vars

\* C24: after an add or an update, no description held by the store has a
\* control character other than the newline, nor a Unicode line separator
DescriptionClean ==
    lastOp.op \in {"add", "update"} =>
        \A i \in DOMAIN cal.events :
            IsDef(cal.events[i].value.description) =>
                \A k \in DOMAIN Val(cal.events[i].value.description) :
                    Val(cal.events[i].value.description)[k] \notin (ControlAll \ {"\n"})

-----------------------------------------------------------------------------
(* SpecRender: the document of one store is rendered again and again       *)
(* while time passes and events come and go                                *)

\* the last instant of the clock, in ms after Day(10)
MaxRenderMs == 1500

\* toICS() is called and its text kept beside the text of the call before,
\* each with the store it was made from
RenderDocument ==
    /\ ~RenderThrows(cal)
    /\ input' = output
    /\ output' = Def([cm |-> cal, text |-> toICS(cal, now)])
    /\ lastOp' = Log("render", <<>>, Result(cal, disk, FALSE, FALSE, FALSE, 0))
    /\ UNCHANGED <<now, disk, cal, hist, cancelled, FeedVars, ListenerVars, writing, PushVars>>

NextRender ==
    \/ AddEvent(Event(Uid1, <<"T">>, Day(1)))
    \/ RemoveEvent(Uid1)
    \/ \E ms \in {500, 1000} : now + ms <= Day(10) + MaxRenderMs /\ Tick(now + ms)
    \/ RenderDocument

SpecRender == InitStore /\ [][NextRender]_vars

\* C25: two calls of toICS() on the same state of the store give the same text
RenderDeterministic ==
    (IsDef(input) /\ IsDef(output) /\ Val(input).cm = Val(output).cm) =>
        Val(input).text = Val(output).text

-----------------------------------------------------------------------------
(* SpecScenario: one store gets the event of the scenario, with and        *)
(* without a status and a duration, is updated, cancelled and restarted    *)

\* 12:00:00Z on the 25th of a month: 1970-01-25T12:00:00Z, the instants of
\* the model being below 2^31 ms
ScenarioStart == DateUTC(1970, 0, 25, 12, 0, 0)

MaxScenarioSeq == 1

ScenarioEvents ==
    {[Event(u, <<"Tweet">>, ScenarioStart) EXCEPT !.status = s, !.duration = d] :
        u \in Uids,
        s \in {Undefined, Def("PLANNED"), Def("COMPLETED")},
        d \in {Undefined, Def(15)}}

NextScenario ==
    \/ \E e \in ScenarioEvents : AddEvent(e)
    \/ \E u \in Uids : SeqBelow(cal.events, u, MaxScenarioSeq) /\ CancelEvent(u)
    \/ \E u \in Uids : RemoveEvent(u)
    \/ Restart

SpecScenario == InitStore /\ [][NextScenario]_vars

\* the lines of the VEVENT block of uid in the document
BlockOf(doc, uid) ==
    LET lines == DocLines(doc)
        IsUid(m) == lines[m] = <<"UID", ":">> \o uid \o <<"@clawcal">>
        IsEnd(m) == lines[m] = <<"END", ":", "VEVENT">>
        b == CHOOSE m \in 1..Len(lines) : IsUid(m)
        e == CHOOSE m \in b..Len(lines) : IsEnd(m) /\ \A k \in b..(m - 1) : ~IsEnd(k)
    IN  {lines[m] : m \in b..e}

\* C26: every event block of the document of the store has a STATUS line,
\* and after the event of the scenario is added with a duration of 15 and
\* no status its block has DTSTART:19700125T120000Z, DURATION:PT15M and
\* STATUS:TENTATIVE
StatusRendered ==
    /\ \A i \in DOMAIN cal.events :
          \E l \in BlockOf(toICS(cal, now), cal.events[i].key) :
              Len(l) >= 2 /\ l[1] = "STATUS" /\ l[2] = ":"
    /\ (/\ lastOp.op = "add"
        /\ \E i \in DOMAIN cal.events :
              /\ cal.events[i].key = lastOp.arg
              /\ ~IsDef(cal.events[i].value.status)
              /\ cal.events[i].value.duration = Def(15)) =>
          /\ <<"DTSTART", ":", "1", "9", "7", "0", "0", "1", "2", "5", "T",
               "1", "2", "0", "0", "0", "0", "Z">> \in BlockOf(toICS(cal, now), lastOp.arg)
          /\ <<"DURATION", ":", "PT", "1", "5", "M">> \in BlockOf(toICS(cal, now), lastOp.arg)
          /\ <<"STATUS", ":", "TENTATIVE">> \in BlockOf(toICS(cal, now), lastOp.arg)

-----------------------------------------------------------------------------
(* cronToRRule (events.ts). A cron expression is a text of characters; a   *)
(* rule is a text whose atoms are FREQ=DAILY, FREQ=WEEKLY;BYDAY=, the      *)
(* two-letter days and commas; the empty rule is the empty text.           *)

LowerLetters ==
    <<"a", "b", "c", "d", "e", "f", "g", "h", "i", "j", "k", "l", "m", "n", "o", "p",
      "q", "r", "s", "t", "u", "v", "w", "x", "y", "z">>

UpperLetters ==
    <<"A", "B", "C", "D", "E", "F", "G", "H", "I", "J", "K", "L", "M", "N", "O", "P",
      "Q", "R", "S", "T", "U", "V", "W", "X", "Y", "Z">>

toUpperCase(s) ==
    [i \in 1..Len(s) |->
        IF \E k \in 1..26 : LowerLetters[k] = s[i]
        THEN UpperLetters[CHOOSE k \in 1..26 : LowerLetters[k] = s[i]]
        ELSE s[i]]

includes(s, c) == \E i \in 1..Len(s) : s[i] = c

\* s.split(/\s+/) of a trimmed text: its runs of characters that are not
\* white space (for the empty text JS gives [''], here no field: fewer
\* than five either way)
splitSpaces(s) ==
    LET IsInk(i) == s[i] \notin WhiteSpace
        IsFirst(i) == IsInk(i) /\ (i = 1 \/ ~IsInk(i - 1))
        IsLast(i) == IsInk(i) /\ (i = Len(s) \/ ~IsInk(i + 1))
        first == SelectSeq(Indices(s), IsFirst)
        last == SelectSeq(Indices(s), IsLast)
    IN  [k \in 1..Len(first) |-> SubSeq(s, first[k], last[k])]

\* s.split(',')
splitComma(s) ==
    LET IsComma(i) == s[i] = ","
        at == SelectSeq(Indices(s), IsComma)
    IN  [k \in 1..(Len(at) + 1) |->
            SubSeq(s, IF k = 1 THEN 1 ELSE at[k - 1] + 1,
                      IF k > Len(at) THEN Len(s) ELSE at[k] - 1)]

\* days.join(',')
RECURSIVE joinComma(_)
joinComma(days) ==
    IF days = <<>> THEN <<>>
    ELSE IF Len(days) = 1 THEN days[1]
    ELSE days[1] \o <<",">> \o joinComma(Tail(days))

\* dayMap[d]: undefined for a key it does not have
dayMap(d) ==
    CASE d \in {<<"0">>, <<"7">>, <<"S", "U", "N">>} -> Def(<<"SU">>)
      [] d \in {<<"1">>, <<"M", "O", "N">>} -> Def(<<"MO">>)
      [] d \in {<<"2">>, <<"T", "U", "E">>} -> Def(<<"TU">>)
      [] d \in {<<"3">>, <<"W", "E", "D">>} -> Def(<<"WE">>)
      [] d \in {<<"4">>, <<"T", "H", "U">>} -> Def(<<"TH">>)
      [] d \in {<<"5">>, <<"F", "R", "I">>} -> Def(<<"FR">>)
      [] d \in {<<"6">>, <<"S", "A", "T">>} -> Def(<<"SA">>)
      [] OTHER -> Undefined

\* a list of which only the first day is kept
firstDayOfList(dayOfWeek) ==
    LET IsDay(d) == IsDef(dayMap(toUpperCase(Trim(d))))
        known == SelectSeq(splitComma(dayOfWeek), IsDay)
    IN  IF known = <<>> THEN <<>> ELSE <<Val(dayMap(toUpperCase(Trim(known[1]))))>>

\* dayOfWeek.split(',').map(d => dayMap[d.trim().toUpperCase()]).filter(Boolean)
daysOfList(dayOfWeek) ==
    LET IsDay(d) == IsDef(dayMap(toUpperCase(Trim(d))))
        known == SelectSeq(splitComma(dayOfWeek), IsDay)
    IN  [k \in 1..Len(known) |-> Val(dayMap(toUpperCase(Trim(known[k]))))]

WeeklyOn == <<"FREQ=WEEKLY;BYDAY=">>

cronToRRule(cron) ==
    LET parts == splitSpaces(Trim(cron))
    IN  IF Len(parts) < 5 THEN <<>>
        ELSE IF includes(parts[1], "/") \/ includes(parts[1], ",") \/ includes(parts[2], "/")
        THEN <<>>
        ELSE IF parts[5] = <<"*">> THEN <<"FREQ=DAILY">>
        ELSE IF IsDef(dayMap(toUpperCase(parts[5])))
        THEN WeeklyOn \o Val(dayMap(toUpperCase(parts[5])))
        ELSE IF includes(parts[5], ",") /\ Len(daysOfList(parts[5])) > 0
        THEN WeeklyOn \o joinComma(daysOfList(parts[5]))
        ELSE IF parts[5] = <<"1", "-", "5">>
        THEN WeeklyOn \o <<"MO", ",", "TU", ",", "WE", ",", "TH", ",", "FR">>
        ELSE <<>>

-----------------------------------------------------------------------------
(* SpecCron: cronToRRule is applied to expressions of two to six fields    *)

\* the first two fields: a time of day, every minute, every five minutes,
\* two minutes of the hour, every second hour, two hours of the day
CronTimes ==
    {<<"0", " ", "8">>, <<"*", " ", "*">>, <<"*", "/", "5", " ", "*">>,
     <<"0", ",", "3", "0", " ", "8">>, <<"0", " ", "*", "/", "2">>,
     <<"0", " ", "8", ",", "2", "0">>}

\* day of month and month
CronDates == {<<"*", " ", "*">>, <<"1", " ", "*">>, <<"*", " ", " ", "6">>}

CronDays ==
    {<<"*">>, <<"0">>, <<"1">>, <<"7">>, <<"8">>, <<"m", "o", "n">>, <<"S", "A", "T">>,
     <<"1", ",", "3", ",", "5">>, <<"m", "o", "n", ",", "F", "R", "I">>,
     <<"5", ",", "1", ",", "1">>, <<"1", "-", "5">>, <<"2", "-", "4">>,
     <<"1", ",", "3", "-", "5">>, <<"1", ",", "x">>, <<"x", ",", "y">>, <<",">>,
     <<"*", "/", "2">>}

CronInputs ==
    {t \o <<" ">> \o d \o <<" ">> \o w : t \in CronTimes, d \in CronDates, w \in CronDays}
    \cup {<<" ">> \o t \o <<"\t">> \o d \o <<" ">> \o w \o <<" ", "2", "0", "2", "5", " ">> :
            t \in CronTimes, d \in CronDates, w \in CronDays}
    \cup {t \o <<" ">> \o d : t \in CronTimes, d \in CronDates}
    \cup {t : t \in CronTimes} \cup {<<>>}

InitCron == PureInit /\ input \in CronInputs /\ output = Undefined

Translate ==
    /\ output = Undefined
    /\ output' = Def(cronToRRule(input))
    /\ UNCHANGED <<input, PureVars>>

NextCron == Translate

SpecCron == InitCron /\ [][NextCron]_vars

\* the fields of the expression, as the claims count them
CronFields(cron) == splitSpaces(Trim(cron))

\* the days of the week from Sunday, as a rule names them and as cron does
RuleDays == <<"SU", "MO", "TU", "WE", "TH", "FR", "SA">>

CronDayNames ==
    <<<<"S", "U", "N">>, <<"M", "O", "N">>, <<"T", "U", "E">>, <<"W", "E", "D">>,
      <<"T", "H", "U">>, <<"F", "R", "I">>, <<"S", "A", "T">>>>

\* the number (0 to 7, both 0 and 7 Sunday) or name of one weekday, in
\* either case, and the day it stands for
IsWeekday(d) ==
    \/ Len(d) = 1 /\ IsDigit(d[1]) /\ DigitVal(d[1]) <= 7
    \/ \E k \in 1..7 : toUpperCase(d) = CronDayNames[k]

DayOf(d) ==
    IF Len(d) = 1 THEN <<RuleDays[(DigitVal(d[1]) % 7) + 1]>>
    ELSE <<RuleDays[CHOOSE k \in 1..7 : toUpperCase(d) = CronDayNames[k]]>>

IsWeekdayList(w) ==
    /\ includes(w, ",")
    /\ \A k \in 1..Len(splitComma(w)) : IsWeekday(splitComma(w)[k])

\* one of the four shapes of the day-of-week field
RecognizedDays(w) ==
    \/ w = <<"*">>
    \/ IsWeekday(w)
    \/ IsWeekdayList(w)
    \/ w = <<"1", "-", "5">>

SubDaily(cron) ==
    \/ includes(CronFields(cron)[1], "/")
    \/ includes(CronFields(cron)[1], ",")
    \/ includes(CronFields(cron)[2], "/")

\* C27: the rule of an expression of five fields is not empty only when
\* its day-of-week field is '*', one weekday, a comma list of weekdays or
\* '1-5' and neither its minute field has '/' or ',' nor its hour field '/'
RuleOnlyForRecognized ==
    (IsDef(output) /\ Len(CronFields(input)) = 5 /\ Val(output) # <<>>) =>
        RecognizedDays(CronFields(input)[5]) /\ ~SubDaily(input)

\* C28: for an expression of five fields that is not sub-daily, the rule is
\* FREQ=DAILY when the day-of-week field is '*', FREQ=WEEKLY;BYDAY= and the
\* day for one weekday, FREQ=WEEKLY;BYDAY= and every day of the list in the
\* order given for a comma list of weekdays, and
\* FREQ=WEEKLY;BYDAY=MO,TU,WE,TH,FR for '1-5'
RuleForRecognized ==
    (IsDef(output) /\ Len(CronFields(input)) = 5 /\ ~SubDaily(input)) =>
        LET w == CronFields(input)[5]
            listed == splitComma(w)
        IN  /\ w = <<"*">> => Val(output) = <<"FREQ=DAILY">>
            /\ IsWeekday(w) => Val(output) = <<"FREQ=WEEKLY;BYDAY=">> \o DayOf(w)
            /\ IsWeekdayList(w) =>
                  Val(output) = <<"FREQ=WEEKLY;BYDAY=">>
                                  \o joinComma([k \in 1..Len(listed) |-> DayOf(listed[k])])
            /\ w = <<"1", "-", "5">> =>
                  Val(output) = <<"FREQ=WEEKLY;BYDAY=", "MO", ",", "TU", ",", "WE", ",",
                                  "TH", ",", "FR">>

\* '0 8 * * 1,3,5' was translated into FREQ=WEEKLY;BYDAY=MO,WE,FR
RuleForRecognizedWitness ==
    /\ input = <<"0", " ", "8", " ", "*", " ", "*", " ", "1", ",", "3", ",", "5">>
    /\ output = Def(<<"FREQ=WEEKLY;BYDAY=", "MO", ",", "WE", ",", "FR">>)

-----------------------------------------------------------------------------
(* The gateway fires agent:schedule (listener.ts, events.ts). The type of  *)
(* a notification and the category of an event are one atom; every emoji   *)
(* outside the basic plane is the pair HI LO, the dash U+2014 is E3.       *)

\* EMOJI[type] || EMOJI.post
emojiFor(type) ==
    IF type = <<"task">> THEN <<"E3">> ELSE <<"HI", "LO">>

\* categoryMap[category]
categoryMap(category) ==
    CASE category = <<"post">> -> Def("scheduled_posts")
      [] category = <<"launch">> -> Def("launch_sequences")
      [] category = <<"review">> -> Def("analytics_checkins")
      [] category = <<"automation">> -> Def("cron_automations")
      [] category = <<"draft">> -> Def("content_drafts")
      [] category = <<"reminder">> -> Def("reminders")
      [] category = <<"completed">> -> Def("task_completions")
      [] OTHER -> Undefined

\* alertsForCategory(category, defaults), alerts a record of the lists set
alertsFor(category, defaults) ==
    IF ~IsDef(defaults.alerts) \/ ~IsDef(categoryMap(category)) THEN Undefined
    ELSE IF Val(categoryMap(category)) \notin DOMAIN Val(defaults.alerts) THEN Undefined
    ELSE IF Len(Val(defaults.alerts)[Val(categoryMap(category))]) = 0 THEN Undefined
    ELSE Def([i \in 1..Len(Val(defaults.alerts)[Val(categoryMap(category))]) |->
                [minutes |-> Def(Val(defaults.alerts)[Val(categoryMap(category))][i]),
                 description |-> Undefined]])

fromScheduleEvent(event, defaults) ==
    [EmptyEvent EXCEPT
       !.uid = Def(event.id),
       !.title = Def(emojiFor(event.type) \o <<" ">> \o event.summary),
       !.description = Def(formatDescription(event)),
       !.start = Def(event.scheduledAt),
       !.duration = IF TruthyNum(event.estimatedDuration) THEN event.estimatedDuration
                    ELSE Def(defaults.event_duration_minutes),
       !.category = Def(event.type),
       !.agent = event.agentId,
       !.project = event.workspace,
       !.status = Def("PLANNED"),
       !.alerts = alertsFor(event.type, defaults)]

\* an offset read as minutes whatever its unit
parseOffsetMinutes(offset) ==
    IF Len(offset) < 2 \/ ~AllDigits(SubSeq(offset, 1, Len(offset) - 1))
       \/ offset[Len(offset)] \notin {"h", "d", "m"}
    THEN 0
    ELSE DigitsToNat(SubSeq(offset, 1, Len(offset) - 1), 0) * 60 * 1000

\* offset.match(/^(\d+)(h|d|m)$/)
parseOffset(offset) ==
    IF Len(offset) < 2 \/ ~AllDigits(SubSeq(offset, 1, Len(offset) - 1))
       \/ offset[Len(offset)] \notin {"h", "d", "m"}
    THEN 0
    ELSE DigitsToNat(SubSeq(offset, 1, Len(offset) - 1), 0)
           * (CASE offset[Len(offset)] = "m" -> 60 * 1000
                [] offset[Len(offset)] = "h" -> 3600 * 1000
                [] offset[Len(offset)] = "d" -> 86400 * 1000)

createCheckinEvents(launchId, launchTitle, launchTime, offsets, project, agent, defaults) ==
    [k \in 1..Len(offsets) |->
        [EmptyEvent EXCEPT
           !.uid = Def(launchId \o <<"-checkin-">> \o NumToText(k - 1)),
           !.title = Def(<<"HI", "LO", " Check analytics ", "E3", " ">> \o launchTitle),
           !.description = Def(<<"Review metrics ">> \o offsets[k]
                                 \o <<" after launch.", "\n", "Look at traffic sources", ",",
                                      " attribution data", ",", " and engagement.">>),
           !.start = Def(launchTime + parseOffset(offsets[k])),
           !.duration = Def(15),
           !.category = Def(<<"review">>),
           !.project = project,
           !.agent = agent,
           !.status = Def("PLANNED"),
           !.alerts = alertsFor(<<"review">>, defaults)]]

\* for (const e of events) sink.addEvent(e), from the result r of the calls
\* before: an exception ends the handler
RECURSIVE addEvents(_, _, _, _)
addEvents(r, clock, events, k) ==
    IF k > Len(events) \/ r.error THEN r
    ELSE addEvents(addEvent(r.cm, r.disk, clock, events[k]), clock, events, k + 1)

\* the handler of agent:schedule
onSchedule(cm, d, clock, config, event) ==
    addEvents(addEvent(cm, d, clock, fromScheduleEvent(event, config.defaults)),
              clock,
              IF config.events.analytics_checkins /\ event.type = <<"launch">>
              THEN createCheckinEvents(event.id, event.summary, event.scheduledAt,
                                       config.defaults.analytics_checkin_offsets,
                                       event.workspace, event.agentId, config.defaults)
              ELSE <<>>,
              1)

\* the gateway fires agent:schedule and the handler leaves the result r
ScheduleStep(event, r) ==
    /\ cal' = r.cm
    /\ disk' = r.disk
    /\ lastOp' = Log("schedule", event, r)
    /\ delivered' = Append(delivered, event)
    /\ hist' = [u \in DOMAIN hist |->
                  IF MapHas(r.cm.events, u) /\ getEvent(r.cm, u) # getEvent(cal, u)
                  THEN Undefined ELSE hist[u]]
    /\ cancelled' = [u \in DOMAIN cancelled |->
                       IF cancelled[u] # "no" /\ getEvent(r.cm, u) # getEvent(cal, u)
                       THEN "overridden" ELSE cancelled[u]]
    /\ UNCHANGED <<now, FeedVars, tcConfig, OtherVars>>

\* the hook is registered when scheduled_posts is set
Schedule(event) ==
    /\ tcConfig.events.scheduled_posts
    /\ ScheduleStep(event, onSchedule(cal, disk, now, tcConfig, event))

\* time passes and nothing is called
Wait(t) ==
    /\ t > now
    /\ now' = t
    /\ UNCHANGED <<disk, cal, lastOp, hist, cancelled, FeedVars, ListenerVars, OtherVars>>

-----------------------------------------------------------------------------
(* SpecSchedule: a store as the sink gets schedule notifications, some of  *)
(* them launches and some of them more than once, while time passes and    *)
(* the store is restarted                                                  *)

MaxSchedules == 3

ScheduleNotice(id, type, summary, scheduledAt, agentId, workspace) ==
    [id |-> id, type |-> type, summary |-> summary, description |-> Undefined,
     scheduledAt |-> scheduledAt, estimatedDuration |-> Undefined,
     agentId |-> agentId, workspace |-> workspace]

LaunchId1 == <<"l", "1">>

LaunchId2 == <<"l", "2">>

ScheduleNotices ==
    {ScheduleNotice(LaunchId1, <<"launch">>, <<"App">>, Day(1), Def(AgentA), Def(<<"w">>)),
     ScheduleNotice(LaunchId2, <<"launch">>, <<"a", ",", "b">>, Day(2) + Hour(9),
                    Undefined, Undefined),
     ScheduleNotice(<<"p", "1">>, <<"post">>, <<"Tweet">>, Day(1), Def(AgentA), Undefined)}

ScheduleOffsets ==
    {<<<<"3", "0", "m">>, <<"2", "h">>, <<"1", "d">>>>,
     <<<<"1", "d">>, <<"1", "d">>>>,
     <<>>}

ScheduleConfigs ==
    {[enabled |-> FALSE, mode |-> "off", aggregate |-> "none",
      events |-> [scheduled_posts |-> TRUE, analytics_checkins |-> TRUE],
      defaults |-> [analytics_checkin_offsets |-> o,
                    event_duration_minutes |-> 30,
                    alerts |-> Def([launch_sequences |-> <<15, 60>>,
                                    analytics_checkins |-> <<0>>,
                                    scheduled_posts |-> <<>>])]] :
        o \in ScheduleOffsets}

InitSchedule ==
    /\ now = Day(10)
    /\ disk = <<>>
    /\ cal = newCalendarManager(TestFile, TestName, <<>>)
    /\ combined = Undefined
    /\ agentFeeds = <<>>
    /\ feedsConfig = [combined |-> FALSE, per_agent |-> FALSE]
    /\ lastOp = [NoOp EXCEPT !.log = TRUE]
    /\ hist = <<>>
    /\ cancelled = <<>>
    /\ tcConfig \in ScheduleConfigs
    /\ delivered = <<>>
    /\ OtherInit

NextSchedule ==
    \/ \E e \in ScheduleNotices : Len(delivered) < MaxSchedules /\ Schedule(e)
    \/ now < Day(11) /\ Wait(now + MsPerDay)
    \/ Restart

SpecSchedule == InitSchedule /\ [][NextSchedule]_vars

\* an offset of the form Nm, Nh or Nd, in ms
OffsetMs(offset) ==
    DigitsToNat(SubSeq(offset, 1, Len(offset) - 1), 0)
      * (CASE offset[Len(offset)] = "m" -> 60000
           [] offset[Len(offset)] = "h" -> 60 * 60000
           [] offset[Len(offset)] = "d" -> 24 * 60 * 60000)

CheckinUid(launchId, i) == launchId \o <<"-checkin-">> \o NumToText(i)

IsCheckinOf(uid, launchId) ==
    Len(uid) > Len(launchId) /\ SubSeq(uid, 1, Len(launchId) + 1) = launchId \o <<"-checkin-">>

\* C29: after the handler has processed a launch, the store holds the
\* launch event, for every position i of the configured offsets an event
\* <id>-checkin-<i> that starts at the launch time plus the offset, and no
\* other check-in of that launch; and when the notification processed is
\* the one processed just before, the events of the store are unchanged
CheckinsIdempotent ==
    [][(/\ delivered' # delivered
        /\ lastOp'.arg.type = <<"launch">>
        /\ ~lastOp'.error) =>
          LET e == lastOp'.arg
              offsets == tcConfig.defaults.analytics_checkin_offsets
          IN  /\ IsDef(getEvent(cal', e.id))
              /\ Val(getEvent(cal', e.id)).start = Def(e.scheduledAt)
              /\ \A i \in 0..(Len(offsets) - 1) :
                    /\ IsDef(getEvent(cal', CheckinUid(e.id, i)))
                    /\ Val(getEvent(cal', CheckinUid(e.id, i))).start
                         = Def(e.scheduledAt + OffsetMs(offsets[i + 1]))
              /\ \A u \in MapKeys(cal'.events) :
                    IsCheckinOf(u, e.id) =>
                        \E i \in 0..(Len(offsets) - 1) : u = CheckinUid(e.id, i)
              /\ (lastOp.op = "schedule" /\ ~lastOp.error /\ lastOp.arg = e) =>
                    cal'.events = cal.events]_vars

\* the first launch was processed, a day passed, it was processed again, and
\* the store holds its three check-ins
CheckinsIdempotentWitness ==
    /\ lastOp.op = "schedule"
    /\ Len(delivered) >= 2
    /\ delivered[Len(delivered)] = delivered[Len(delivered) - 1]
    /\ delivered[Len(delivered)].id = LaunchId1
    /\ now = Day(11)
    /\ disk[TestFile].clock = Day(11)
    /\ Len(tcConfig.defaults.analytics_checkin_offsets) = 3
    /\ Len(cal.events) = 4
    /\ MapHas(cal.events, CheckinUid(LaunchId1, 2))

-----------------------------------------------------------------------------
(* SpecPush: a router with a LocalCalendarPush on macOS gets events with   *)
(* and without a recurrence rule, updates, cancellations and removals      *)

MaxPushed == 3

MaxPushSeq == 1

DailyRule == <<"FREQ=DAILY">>

\* the first uid recurring or not, the second not, all of one agent and title
PushEvents ==
    {[Event(Uid1, <<"T">>, Day(1)) EXCEPT !.agent = Def(AgentA), !.rrule = r] :
        r \in {Undefined, Def(DailyRule)}}
    \cup {[Event(Uid2, <<"T">>, Day(1)) EXCEPT !.agent = Def(AgentA)]}

PushUpdates == {[title |-> Def(<<"N">>)], [rrule |-> Def(DailyRule)]}

InitPush ==
    /\ now = Day(10)
    /\ disk = <<>>
    /\ cal = newCalendarManager(TestFile, TestName, <<>>)
    /\ feedsConfig \in FeedConfigs
    /\ combined = newFeedManager(feedsConfig, <<>>, <<>>).combined
    /\ agentFeeds = <<>>
    /\ lastOp = [NoOp EXCEPT !.log = TRUE]
    /\ hist = <<>>
    /\ cancelled = <<>>
    /\ tcConfig = NoTaskCompletions
    /\ delivered = <<>>
    /\ writing = Undefined /\ input = Undefined /\ output = Undefined
    /\ localPush = Def(newLocalCalendarPush(TRUE, TRUE))
    /\ pushed = <<>>

NextPush ==
    \/ \E e \in PushEvents : Len(pushed) < MaxPushed /\ RouterAddEvent(e)
    \/ \E u \in Uids, p \in PushUpdates :
          /\ Len(pushed) < MaxPushed
          /\ CopiesBelow(u, MaxPushSeq)
          /\ RouterUpdateEvent(u, p)
    \/ \E u \in Uids :
          Len(pushed) < MaxPushed /\ CopiesBelow(u, MaxPushSeq) /\ RouterCancelEvent(u)
    \/ \E u \in Uids : Len(pushed) < MaxPushed /\ RouterRemoveEvent(u)

SpecPush == InitPush /\ [][NextPush]_vars

\* the router holds uid with a recurrence rule
HeldRecurring(fm, uid) ==
    IsDef(fmGetEvent(fm, uid)) /\ TruthyStr(Val(fmGetEvent(fm, uid)).rrule)

\* C30: a call of addEvent with an event that has an rrule, and a call of
\* updateEvent, cancelEvent or removeEvent for a uid held with an rrule,
\* hands no script to osascript
NoPushForRecurring ==
    [][/\ (lastOp'.op = "routerAdd" /\ TruthyStr(lastOp'.arg.rrule)) => pushed' = pushed
       /\ (/\ lastOp'.op \in {"routerUpdate", "routerCancel"}
           /\ HeldRecurring(Fm, lastOp'.arg.uid)
           /\ HeldRecurring(Fm', lastOp'.arg.uid)) => pushed' = pushed
       /\ (lastOp'.op = "routerRemove" /\ HeldRecurring(Fm, lastOp'.arg)) =>
             pushed' = pushed]_vars

-----------------------------------------------------------------------------
(* SpecQueue: a LocalCalendarPush on macOS is called directly; the osascript *)
(* processes it started exit later, in any order                             *)

MaxQueued == 3

QueueEvents ==
    {[Event(u, <<"T">>, Day(1)) EXCEPT !.agent = Def(a)] : u \in Uids, a \in {AgentA, AgentB}}

\* a call of a method of the LocalCalendarPush that left it as p
PushStep(p) ==
    /\ localPush' = p.lp
    /\ pushed' = p.pushed
    /\ UNCHANGED <<now, disk, cal, FeedVars, lastOp, hist, cancelled, ListenerVars,
                   writing, input, output>>

PushEvent(event) == PushStep(pushEvent(Push, event))

PushUpdateEvent(event) == PushStep(pushUpdateEvent(Push, event))

PushRemoveEvent(agent, title) ==
    PushStep(pushRemoveEvent(Push, agent, title))

\* the callback of execFile: the i-th osascript process has exited
ScriptExit(i) ==
    /\ ~pushed[i].exited
    /\ pushed' = [pushed EXCEPT ![i].exited = TRUE]
    /\ UNCHANGED <<now, disk, cal, FeedVars, lastOp, hist, cancelled, ListenerVars,
                   writing, input, output, localPush>>

InitQueue ==
    /\ now = Day(10)
    /\ disk = <<>>
    /\ cal = newCalendarManager(TestFile, TestName, <<>>)
    /\ combined = Undefined
    /\ agentFeeds = <<>>
    /\ feedsConfig = [combined |-> FALSE, per_agent |-> FALSE]
    /\ lastOp = NoOp
    /\ hist = <<>>
    /\ cancelled = <<>>
    /\ tcConfig = NoTaskCompletions
    /\ delivered = <<>>
    /\ writing = Undefined /\ input = Undefined /\ output = Undefined
    /\ localPush = Def(newLocalCalendarPush(TRUE, TRUE))
    /\ pushed = <<>>

NextQueue ==
    \/ \E e \in QueueEvents : Len(pushed) < MaxQueued /\ PushEvent(e)
    \/ \E e \in QueueEvents : Len(pushed) < MaxQueued /\ PushUpdateEvent(e)
    \/ \E a \in {AgentA, AgentB} : Len(pushed) < MaxQueued /\ PushRemoveEvent(a, <<"T">>)
    \/ \E i \in DOMAIN pushed : ScriptExit(i)

SpecQueue == InitQueue /\ [][NextQueue]_vars

\* C31: an osascript process is started only when every process started
\* before it has exited
ScriptsSequential ==
    [][Len(pushed') > Len(pushed) => \A i \in DOMAIN pushed : pushed[i].exited]_vars

-----------------------------------------------------------------------------
(* The HTTP routes (index.ts). A request is its headers: authorization, an *)
(* optional text, and the other headers as a Map from lower-case names. A  *)
(* response is the status code set (Undefined: left at 200) and the body.  *)
(* The base64 form of a text is made character by character.               *)

toLowerCase(s) ==
    [i \in 1..Len(s) |->
        IF \E k \in 1..26 : UpperLetters[k] = s[i]
        THEN LowerLetters[CHOOSE k \in 1..26 : UpperLetters[k] = s[i]]
        ELSE s[i]]

startsWith(s, prefix) == MatchAt(s, 1, prefix)

\* s.slice(n)
slice(s, n) == SubSeq(s, n + 1, Len(s))

\* the characters of credentials and the base64 form of each
PlainChars == <<"u", ":", "s", "x", " ">>

CodedChars == <<"dQ", "Og", "cw", "eA", "IA">>

toBase64(t) == [i \in 1..Len(t) |-> CodedChars[CHOOSE k \in 1..5 : PlainChars[k] = t[i]]]

IsCoded(a) == \E k \in 1..5 : CodedChars[k] = a

\* Buffer.from(s, 'base64').toString(): what is not base64 is skipped
fromBase64(s) ==
    LET kept == SelectSeq(s, IsCoded)
    IN  [i \in 1..Len(kept) |-> PlainChars[CHOOSE k \in 1..5 : CodedChars[k] = kept[i]]]

\* decoded.split(':').slice(1).join(':'): what follows the first colon
afterColon(decoded) ==
    IF \E i \in 1..Len(decoded) : decoded[i] = ":"
    THEN slice(decoded, CHOOSE i \in 1..Len(decoded) :
                           /\ decoded[i] = ":"
                           /\ \A j \in 1..(i - 1) : decoded[j] # ":")
    ELSE <<>>

BearerPrefix == <<"B", "e", "a", "r", "e", "r", " ">>

BasicPrefix == <<"B", "a", "s", "i", "c", " ">>

ModeNone == <<"n", "o", "n", "e">>

ModeToken == <<"t", "o", "k", "e", "n">>

ModePassword == <<"p", "a", "s", "s", "w", "o", "r", "d">>

ModeTrustedProxy == <<"t", "r", "u", "s", "t", "e", "d", "-", "p", "r", "o", "x", "y">>

Response(ok, status, body) == [ok |-> ok, status |-> status, body |-> body]

Unauthorized == Response(FALSE, Def(401), <<"Unauthorized">>)

Forbidden == Response(FALSE, Def(403), <<"Forbidden">>)

Allowed == Response(TRUE, Undefined, <<>>)

\* req.headers.authorization || ''
authHeaderOf(req) == IF TruthyStr(req.authorization) THEN Val(req.authorization) ELSE <<>>

\* the password of a Basic authorization header
basicPassword(authHeader) == afterColon(fromBase64(slice(authHeader, 6)))

checkToken(req, token) ==
    IF /\ startsWith(authHeaderOf(req), BearerPrefix)
       /\ Trim(slice(authHeaderOf(req), 7)) = token
    THEN Allowed
    ELSE IF /\ startsWith(authHeaderOf(req), BasicPrefix)
            /\ basicPassword(authHeaderOf(req)) = token
    THEN Allowed
    ELSE Unauthorized

checkPassword(req, password) ==
    IF /\ startsWith(authHeaderOf(req), BasicPrefix)
       /\ basicPassword(authHeaderOf(req)) = password
    THEN Allowed
    ELSE Unauthorized

\* req.headers[name.toLowerCase()] is truthy
HasHeader(req, name) ==
    /\ MapHas(req.headers, toLowerCase(name))
    /\ MapGet(req.headers, toLowerCase(name)) # Def(<<>>)

checkProxy(req, proxy) ==
    IF /\ IsDef(proxy.requiredHeaders)
       /\ \E i \in 1..Len(Val(proxy.requiredHeaders)) :
             ~HasHeader(req, Val(proxy.requiredHeaders)[i])
    THEN Forbidden
    ELSE IF ~HasHeader(req, proxy.userHeader) THEN Forbidden
    ELSE IF /\ IsDef(proxy.allowUsers)
            /\ Len(Val(proxy.allowUsers)) > 0
            /\ \A i \in 1..Len(Val(proxy.allowUsers)) :
                  Def(Val(proxy.allowUsers)[i]) #
                      MapGet(req.headers, toLowerCase(proxy.userHeader))
    THEN Forbidden
    ELSE Allowed

\* a mode that no branch handles is let through
checkAuth(req, authConfig) ==
    IF ~IsDef(authConfig) THEN Allowed
    ELSE IF ~TruthyStr(Val(authConfig).mode) \/ Val(authConfig).mode = Def(ModeNone)
    THEN Allowed
    ELSE IF Val(authConfig).mode = Def(ModeToken)
    THEN IF ~IsDef(Val(authConfig).token) \/ Trim(Val(Val(authConfig).token)) = <<>>
         THEN Allowed
         ELSE checkToken(req, Trim(Val(Val(authConfig).token)))
    ELSE IF Val(authConfig).mode = Def(ModePassword)
    THEN IF ~IsDef(Val(authConfig).password) \/ Trim(Val(Val(authConfig).password)) = <<>>
         THEN Allowed
         ELSE checkPassword(req, Trim(Val(Val(authConfig).password)))
    ELSE IF Val(authConfig).mode = Def(ModeTrustedProxy)
    THEN IF ~IsDef(Val(authConfig).trustedProxy) THEN Allowed
         ELSE checkProxy(req, Val(Val(authConfig).trustedProxy))
    ELSE Allowed

\* the handler of /clawcal/feed.ics, registered when feeds.combined is on
feedHandler(req, authConfig, fm, clock) ==
    IF ~checkAuth(req, authConfig).ok THEN checkAuth(req, authConfig)
    ELSE IF ~IsDef(fm.combined)
    THEN Response(TRUE, Def(404), <<"Combined feed not enabled">>)
    ELSE Response(TRUE, Undefined, toICS(Val(fm.combined), clock))

-----------------------------------------------------------------------------
(* SpecAuth: requests for the combined feed under the auth configurations  *)
(* of the gateway                                                          *)

Secret == <<"s">>

ModeOAuth == <<"o", "a", "u", "t", "h">>

ModeMiscased == <<"T", "o", "k", "e", "n">>

AuthModes == {ModeNone, ModeToken, ModePassword, ModeTrustedProxy, ModeOAuth, ModeMiscased}

UserHeader == <<"X", "-", "U">>

Proxy == [requiredHeaders |-> Undefined, userHeader |-> UserHeader,
          allowUsers |-> Def(<< <<"u">> >>)]

AuthConfigs ==
    {Undefined}
    \cup {Def([mode |-> m, token |-> t, password |-> t, trustedProxy |-> p]) :
            m \in {Undefined, Def(<<>>)} \cup {Def(x) : x \in AuthModes},
            t \in {Undefined, Def(Secret)},
            p \in {Undefined, Def(Proxy)}}

Credentials == {Secret, <<"x">>}

Requests ==
    {[authorization |-> a, headers |-> h] :
        a \in {Undefined}
               \cup {Def(BearerPrefix \o c) : c \in Credentials}
               \cup {Def(BasicPrefix \o toBase64(<<"u", ":">> \o c)) : c \in Credentials},
        h \in {<<>>} \cup {<<[key |-> toLowerCase(UserHeader), value |-> u]>> :
                              u \in {<<"u">>, <<"x">>}}}

AuthEvent == [Event(Uid1, <<"T">>, Day(1)) EXCEPT !.agent = Def(AgentA)]

InitAuth ==
    /\ now = Day(10)
    /\ disk = <<>>
    /\ cal = newCalendarManager(TestFile, TestName, <<>>)
    /\ feedsConfig = [combined |-> TRUE, per_agent |-> TRUE]
    /\ combined = newFeedManager(feedsConfig, <<>>, <<>>).combined
    /\ agentFeeds = <<>>
    /\ lastOp = NoOp
    /\ hist = <<>>
    /\ cancelled = <<>>
    /\ tcConfig = NoTaskCompletions
    /\ delivered = <<>>
    /\ writing = Undefined
    /\ PushInit
    /\ input \in {Def([authConfig |-> c, req |-> Undefined]) : c \in AuthConfigs}
    /\ output = Undefined

\* a request for /clawcal/feed.ics is answered
Request(req) ==
    /\ input' = Def([Val(input) EXCEPT !.req = Def(req)])
    /\ output' = Def(feedHandler(req, Val(input).authConfig, Fm, now))
    /\ UNCHANGED <<PureVars>>

NextAuth ==
    \/ \E req \in Requests : Request(req)
    \/ RouterAddEvent(AuthEvent) /\ output = Undefined

SpecAuth == InitAuth /\ [][NextAuth]_vars

\* the auth mode is not empty and none of the four modes
UnknownMode(authConfig) ==
    /\ IsDef(authConfig)
    /\ TruthyStr(Val(authConfig).mode)
    /\ Val(Val(authConfig).mode) \notin {ModeNone, ModeToken, ModePassword, ModeTrustedProxy}

\* C32: under an unknown auth mode every request is rejected with status
\* 500 and no feed is served
UnknownModeRejected ==
    (IsDef(output) /\ UnknownMode(Val(input).authConfig)) =>
        (~Val(output).ok /\ Val(output).status = Def(500))

-----------------------------------------------------------------------------
(* SpecActive: a store whose events are added and updated with every       *)
(* status but COMPLETED, cancelled, reloaded and cleaned up                *)

MaxActiveSeq == 1

ActiveEvents ==
    {[Event(u, <<"T">>, Day(1)) EXCEPT !.status = s] :
        u \in Uids, s \in {Undefined, Def("PLANNED"), Def("IN_PROGRESS")}}

ActiveUpdates == {[title |-> Def(<<"N">>)], [status |-> Def("IN_PROGRESS")]}

NextActive ==
    \/ \E e \in ActiveEvents : AddEvent(e)
    \/ \E u \in Uids, p \in ActiveUpdates :
          SeqBelow(cal.events, u, MaxActiveSeq) /\ UpdateEvent(u, p)
    \/ \E u \in Uids : SeqBelow(cal.events, u, MaxActiveSeq) /\ CancelEvent(u)
    \/ Restart
    \/ \E m \in 1..MaxCap : Cleanup(RetentionDays, m)
    \/ Tick(Day(11))

SpecActive == InitCleanup /\ [][NextActive]_vars

\* C33: no call of add or update gives the status COMPLETED, and a call of
\* cleanup removes no event
CleanupKeepsActive ==
    [][CleanupStep => MapKeys(cal'.events) = MapKeys(cal.events)]_vars

-----------------------------------------------------------------------------
(* SpecUid: a store gets events under uids of every kind: empty, with a    *)
(* line break, ending in @clawcal                                          *)

MaxUid == 1

MaxUidEvents == 2

MaxUidSeq == 1

UidChars == {"a", "\n", "@clawcal"}

\* the short uids, and a character after an a
UidTexts == TextsUpTo(UidChars, MaxUid) \cup {<<"a", c>> : c \in UidChars}

UidEvents ==
    {[Event(u, <<"T">>, Day(1)) EXCEPT !.status = s] :
        u \in UidTexts, s \in {Undefined, Def("COMPLETED")}}

NextUid ==
    \/ \E e \in UidEvents :
          /\ MapHas(cal.events, Val(e.uid)) \/ Len(cal.events) < MaxUidEvents
          /\ AddEvent(e)
    \/ \E u \in UidTexts :
          SeqBelow(cal.events, u, MaxUidSeq) /\ UpdateEvent(u, [title |-> Def(<<"N">>)])
    \/ \E u \in UidTexts : SeqBelow(cal.events, u, MaxUidSeq) /\ CancelEvent(u)
    \/ \E u \in UidTexts : MapHas(cal.events, u) /\ RemoveEvent(u)
    \/ Cleanup(RetentionDays, MaxCap)

SpecUid == InitCleanup /\ [][NextUid]_vars

\* the uids of a fresh store constructed on the backing document
PersistedUids == MapKeys(newCalendarManager(cal.filePath, cal.calendarName, disk).events)

\* C34: after successful calls a fresh store on the backing document holds
\* the uids of the in-memory collection
PersistedEqualsMemory == ~lastOp.error => PersistedUids = MapKeys(cal.events)

-----------------------------------------------------------------------------
(* SpecSubset: a router with the combined feed and the per-agent feeds     *)
(* gets completed and planned events of two agents and is cleaned up       *)

MaxSubsetSeq == 1

SubsetEvents ==
    {[Event(Uid1, <<"T">>, Day(9)) EXCEPT !.agent = Def(AgentA), !.status = s] :
        s \in {Undefined, Def("COMPLETED")}}
    \cup {[Event(Uid2, <<"T">>, st) EXCEPT !.agent = Def(AgentB),
                                           !.status = Def("COMPLETED")] :
            st \in {Day(1), Day(9)}}

InitSubset ==
    /\ now = Day(10)
    /\ disk = <<>>
    /\ cal = newCalendarManager(TestFile, TestName, <<>>)
    /\ feedsConfig = [combined |-> TRUE, per_agent |-> TRUE]
    /\ combined = newFeedManager(feedsConfig, <<>>, <<>>).combined
    /\ agentFeeds = <<>>
    /\ lastOp = [NoOp EXCEPT !.log = TRUE]
    /\ hist = <<>>
    /\ cancelled = <<>>
    /\ tcConfig = NoTaskCompletions
    /\ delivered = <<>>
    /\ OtherInit

NextSubset ==
    \/ \E e \in SubsetEvents : RouterAddEvent(e)
    \/ \E u \in Uids : CopiesBelow(u, MaxSubsetSeq) /\ RouterUpdateEvent(u, [title |-> Def(<<"N">>)])
    \/ \E u \in Uids : CopiesBelow(u, MaxSubsetSeq) /\ RouterCancelEvent(u)
    \/ \E u \in Uids : RouterRemoveEvent(u)
    \/ \E m \in 1..MaxCap : RouterCleanup(RetentionDays, m)

SpecSubset == InitSubset /\ [][NextSubset]_vars

\* C35: the combined store holds every uid that a per-agent store holds
CombinedHoldsAll ==
    IsDef(combined) =>
        \A i \in 1..Len(agentFeeds) :
            MapKeys(agentFeeds[i].value.events) \subseteq MapKeys(Val(combined).events)

-----------------------------------------------------------------------------
(* SpecShared: a router gets events of two agent ids that differ in one    *)
(* character outside [A-Za-z0-9_-], and is restarted                       *)

\* 'qa-1'
AgentBSafe == safeName(AgentB)

SharedEvents ==
    {[Event(u, <<"T">>, Day(1)) EXCEPT !.agent = Def(a)] :
        u \in Uids, a \in {AgentB, AgentBSafe}}

NextShared ==
    \/ \E e \in SharedEvents : RouterAddEvent(e)
    \/ \E u \in Uids : RouterRemoveEvent(u)
    \/ RouterRestart

SpecShared == InitDiscovery /\ [][NextShared]_vars

\* the documents of the stores the router holds, one for each store
StoreFiles ==
    (IF IsDef(combined) THEN <<Val(combined).filePath>> ELSE <<>>)
    \o [i \in 1..Len(agentFeeds) |-> agentFeeds[i].value.filePath]

\* C36: no two stores of the router have the same backing document
OneStorePerDocument ==
    \A i, j \in 1..Len(StoreFiles) : i # j => StoreFiles[i] # StoreFiles[j]

-----------------------------------------------------------------------------
(* SpecKey: a store gets events and updates, some of which name a uid      *)

MaxKeySeq == 2

KeyEvents == {Event(u, t, Day(1)) : u \in Uids, t \in {<<"T">>, <<"U">>}}

KeyUpdates == {[title |-> Def(<<"N">>)]} \cup {[uid |-> Def(u)] : u \in Uids}

NextKey ==
    \/ \E e \in KeyEvents : AddEvent(e)
    \/ \E u \in Uids, p \in KeyUpdates : SeqBelow(cal.events, u, MaxKeySeq) /\ UpdateEvent(u, p)
    \/ \E u \in Uids : MapHas(cal.events, u) /\ RemoveEvent(u)

SpecKey == InitCleanup /\ [][NextKey]_vars

\* C37: every event of the collection is stored under its own uid
KeyIsUid ==
    \A i \in 1..Len(cal.events) : cal.events[i].value.uid = Def(cal.events[i].key)

-----------------------------------------------------------------------------
(* SpecSource: a router gets events of two agents, the same uid under both, *)
(* and updates that name an agent                                           *)

MaxSourceSeq == 1

SourceEvents ==
    {[Event(u, <<"T">>, Day(1)) EXCEPT !.agent = Def(a)] : u \in Uids, a \in {AgentA, AgentB}}

SourceUpdates == {[title |-> Def(<<"N">>)], [agent |-> Def(AgentB)]}

NextSource ==
    \/ \E e \in SourceEvents : RouterAddEvent(e)
    \/ \E u \in Uids, p \in SourceUpdates :
          CopiesBelow(u, MaxSourceSeq) /\ RouterUpdateEvent(u, p)
    \/ \E u \in Uids : CopiesBelow(u, MaxSourceSeq) /\ RouterCancelEvent(u)
    \/ \E u \in Uids : RouterRemoveEvent(u)

SpecSource == InitFeeds /\ [][NextSource]_vars

\* C38: every event of the store of an agent has that agent
SourceMatchesStore ==
    \A i \in 1..Len(agentFeeds) :
        \A k \in 1..Len(agentFeeds[i].value.events) :
            agentFeeds[i].value.events[k].value.agent = Def(agentFeeds[i].key)

-----------------------------------------------------------------------------
(* SpecLost: a router under each of the four feeds configurations gets     *)
(* events with and without an agent                                        *)

AllFeedConfigs == [combined : BOOLEAN, per_agent : BOOLEAN]

LostEvents ==
    {[Event(u, <<"T">>, Day(1)) EXCEPT !.agent = a] :
        u \in Uids, a \in {Undefined, Def(AgentA), Def(AgentB)}}

InitLost ==
    /\ now = Day(10)
    /\ disk = <<>>
    /\ cal = newCalendarManager(TestFile, TestName, <<>>)
    /\ feedsConfig \in AllFeedConfigs
    /\ combined = newFeedManager(feedsConfig, <<>>, <<>>).combined
    /\ agentFeeds = <<>>
    /\ lastOp = [NoOp EXCEPT !.log = TRUE]
    /\ hist = <<>>
    /\ cancelled = <<>>
    /\ tcConfig = NoTaskCompletions
    /\ delivered = <<>>
    /\ OtherInit

NextLost ==
    \/ \E e \in LostEvents : RouterAddEvent(e)
    \/ \E u \in Uids : RouterRemoveEvent(u)

SpecLost == InitLost /\ [][NextLost]_vars

\* C39: after addEvent(e) of the router returned, getEvent(e.uid) gives e as
\* the stores keep it and getAllEvents contains it
AddedIsFound ==
    (lastOp.op = "routerAdd" /\ ~lastOp.error) =>
        /\ fmGetEvent(Fm, Val(lastOp.arg.uid)) = Def(sanitizeEvent(lastOp.arg))
        /\ \E k \in 1..Len(fmGetAllEvents(Fm)) :
              fmGetAllEvents(Fm)[k] = sanitizeEvent(lastOp.arg)

-----------------------------------------------------------------------------
(* SpecFail: the file of a store loses and regains its write permission    *)
(* between the calls on the store                                          *)

MaxFailSeq == 1

FailEvents ==
    {[Event(u, <<"T">>, Day(1)) EXCEPT !.status = s] :
        u \in Uids, s \in {Undefined, Def("COMPLETED")}}

\* chmod a-w on the file of the store
Protect ==
    /\ cal.filePath \in DOMAIN disk
    /\ ~Unwritable(disk, cal.filePath)
    /\ disk' = [disk EXCEPT ![cal.filePath] =
                  [raw |-> Content(disk[cal.filePath]), readonly |-> TRUE]]
    /\ lastOp' = Log("protect", <<>>, Result(cal, disk', FALSE, FALSE, FALSE, 0))
    /\ UNCHANGED <<now, cal, hist, cancelled, FeedVars, ListenerVars, OtherVars>>

\* chmod u+w on the file of the store
Unprotect ==
    /\ Unwritable(disk, cal.filePath)
    /\ disk' = [disk EXCEPT ![cal.filePath] = [raw |-> disk[cal.filePath].raw]]
    /\ lastOp' = Log("unprotect", <<>>, Result(cal, disk', FALSE, FALSE, FALSE, 0))
    /\ UNCHANGED <<now, cal, hist, cancelled, FeedVars, ListenerVars, OtherVars>>

NextFail ==
    \/ \E e \in FailEvents : AddEvent(e)
    \/ \E u \in Uids :
          SeqBelow(cal.events, u, MaxFailSeq) /\ UpdateEvent(u, [title |-> Def(<<"N">>)])
    \/ \E u \in Uids : SeqBelow(cal.events, u, MaxFailSeq) /\ CancelEvent(u)
    \/ \E u \in Uids : RemoveEvent(u)
    \/ Cleanup(RetentionDays, MaxCap)
    \/ Protect
    \/ Unprotect

SpecFail == InitCleanup /\ [][NextFail]_vars

\* C40: a call on the store that ends with an exception of write leaves
\* the in-memory collection as it was before the call
FailedWriteKeepsMemory ==
    [][(/\ lastOp'.op \in {"add", "update", "cancel", "remove", "cleanup"}
        /\ lastOp'.error) => cal'.events = cal.events]_vars

=============================================================================
